---- MODULE Spec2Model ----
(***************************************************************************)
(* The bullock-cart race backend.                                          *)
(*                                                                         *)
(* Race hierarchy: the admin handlers of app/api/v1/races.py and           *)
(* app/api/v1/race_results.py over the tables of app/models/race.py        *)
(* (races, race_days, race_results), with the CHECK constraints, foreign   *)
(* keys and unique indexes the tables declare.  raceResults holds a        *)
(* result's race_day_id and position; teamResults holds what the bull      *)
(* statistics read of it: the two bull slots, position, is_disqualified    *)
(* and time_milliseconds.                                                  *)
(* Owners and bulls: app/api/v1/owners.py and app/api/v1/bulls.py.         *)
(* Sale listings: the users' listings of app/api/v1/user_bulls.py with the *)
(* expiry job of expire_user_bulls.py, and the admin's marketplace         *)
(* listings of app/api/v1/marketplace.py.                                  *)
(* Public reads: the for-sale list and the bull statistics of              *)
(* app/api/v1/public.py.                                                   *)
(* Leaderboard: the monthly ranking of app/services/leaderboard.py over    *)
(* the tables it names (regions, datedRaces and bullResults hold the       *)
(* columns it reads of the region tables, Race and RaceResult) and its     *)
(* cache, the Leaderboard table.  Dates there are <<year, month, day>>.    *)
(*                                                                         *)
(* A handler runs on one ORM session: its writes reach the database at     *)
(* db.commit(), and a commit that breaks a constraint raises and leaves    *)
(* the committed rows as they were.  Dates are day ordinals 1..MaxDate;    *)
(* now counts whole days.  Columns no handler reads in a condition         *)
(* (names, addresses, notes, prices, image paths, updated_at) are left out *)
(* of the rows.                                                            *)
(***************************************************************************)
EXTENDS Integers, FiniteSets, Sequences, Bags, TLC

VARIABLES races, raceDays, raceResults, sessions, last, request,
          owners, bulls, userBullsSell, marketplaceListings, now,
          teamResults, response,
          regions, datedRaces, bullResults, leaderboard

vars == <<races, raceDays, raceResults, sessions, last, request,
          owners, bulls, userBullsSell, marketplaceListings, now,
          teamResults, response,
          regions, datedRaces, bullResults, leaderboard>>

\* The tables the leaderboard service reads and the cache it writes.
leaderboardTables == <<regions, datedRaces, bullResults, leaderboard>>
\* The tables beside the race hierarchy, the clock and the body answered last.
beyondRaces == <<owners, bulls, userBullsSell, marketplaceListings, now,
                 teamResults, response, leaderboardTables>>
\* The race hierarchy.
raceTables == <<races, raceDays, raceResults>>

(* ------------------------------ bounds -------------------------------- *)
MaxRaces == 2
MaxDays == 2
MaxDate == 2
MaxDayNumber == 2
MaxPos == 2
NumResultDays == 2
NumClients == 2
RcRaces == 1
CdDays == 1
RcDate == 3
MaxOwners == 2
MaxBulls == 2
MaxReg == 1
NumUsers == 2
MaxPrice == 1
SaleListings == 2
ClockStep == 15
MaxNow == 30
MaxItems == 2
NumSkip == 1
MaxLimit == 2
MaxTime == 2
MaxStatRows == 2
LbBulls == 11
MaxExtraRows == 2
MaxRegions == 2
MaxLbRows == 2
MaxCacheRows == 2

(* ---------------------------- value domains --------------------------- *)
\* An optional request field: {} when the body leaves it out, {v} when it gives v.
Unset == {}
Opt(S) == {Unset} \cup {{x} : x \in S}
Given(f) == CHOOSE x \in f : TRUE

RaceStatus == {"scheduled", "in_progress", "completed", "cancelled"}
DefaultStatus == "scheduled"

Dates == 1..MaxDate
DayNumbers == 1..MaxDayNumber
Positions == 1..MaxPos
\* Identifiers a request may name: those that can exist and one that never does.
RaceIds == 1..MaxRaces
RaceIdArgs == 1..(MaxRaces + 1)
DayIds == 1..MaxDays
DayIdArgs == 1..(MaxDays + 1)
Clients == 1..NumClients

\* uuid.uuid4: an identifier no stored row holds.
FreshId(used) == CHOOSE i \in 1..(Cardinality(used) + 1) : i \notin used

Respond(op, err) == last' = [op |-> op, err |-> err]
\* The response variable while no body has been answered.
NoBody == <<>>

(* ------------------------- table constraints -------------------------- *)
\* The races table without check_race_dates.
RaceChecksStatusOnly(r) == r.status \in RaceStatus

\* races: check_race_status, check_race_dates.
RaceChecks(r) ==
    /\ r.status \in RaceStatus
    /\ r.end_date >= r.start_date

\* The race_days table with ix_race_days_race_day_number not unique.
RaceDayChecksNoUnique(rs, ds) ==
    \A d \in DOMAIN ds :
        /\ ds[d].status \in RaceStatus
        /\ ds[d].day_number > 0
        /\ ds[d].race_id \in DOMAIN rs

\* race_days: check_race_day_status, check_day_number_positive, the foreign key
\* to races and the unique index ix_race_days_race_day_number.
RaceDayChecks(rs, ds) ==
    /\ \A d \in DOMAIN ds :
          /\ ds[d].status \in RaceStatus
          /\ ds[d].day_number > 0
          /\ ds[d].race_id \in DOMAIN rs
    /\ \A d1, d2 \in DOMAIN ds :
          (ds[d1].race_id = ds[d2].race_id /\ ds[d1].day_number = ds[d2].day_number)
              => d1 = d2

\* The race_results table with ix_race_results_race_day_position not unique.
RaceResultChecksNoUnique(ds, res) ==
    \A r \in BagToSet(res) :
        /\ r.position > 0
        /\ r.race_day_id \in DOMAIN ds

\* race_results: check_position_positive, the foreign key to race_days and the
\* unique index ix_race_results_race_day_position.  The rows are a bag of
\* (race_day_id, position): the surrogate id only tells equal rows apart.
RaceResultChecks(ds, res) ==
    \A r \in BagToSet(res) :
        /\ r.position > 0
        /\ r.race_day_id \in DOMAIN ds
        /\ CopiesIn(r, res) = 1

ResultsOfDay(res, d) == {r \in BagToSet(res) : r.race_day_id = d}
CountOfDay(res, d) == BagCardinality([r \in ResultsOfDay(res, d) |-> res[r]])
RemoveDay(res, d) == [r \in (BagToSet(res) \ ResultsOfDay(res, d)) |-> res[r]]
OneRow(r) == SetToBag({r})

RECURSIVE SeqToBag(_)
SeqToBag(s) == IF s = <<>> THEN EmptyBag ELSE OneRow(Head(s)) (+) SeqToBag(Tail(s))

(* ------------------------------- races -------------------------------- *)
create_race(start, end, st) ==
    LET id == FreshId(DOMAIN races)
        row == [start_date |-> start, end_date |-> end,
                status |-> IF st = Unset THEN DefaultStatus ELSE Given(st)]
    IN  IF RaceChecks(row)
        THEN /\ races' = races @@ (id :> row)
             /\ Respond("create_race", "ok")
             /\ UNCHANGED <<raceDays, raceResults, sessions>>
        ELSE /\ Respond("create_race", "IntegrityError")
             /\ UNCHANGED <<races, raceDays, raceResults, sessions>>

RaceUpdated(race, start, end, st) ==
    [start_date |-> IF start = Unset THEN race.start_date ELSE Given(start),
     end_date |-> IF end = Unset THEN race.end_date ELSE Given(end),
     status |-> IF st = Unset THEN race.status ELSE Given(st)]

update_race(race_id, start, end, st) ==
    IF race_id \notin DOMAIN races
    THEN /\ Respond("update_race", "NotFound")
         /\ UNCHANGED <<races, raceDays, raceResults, sessions>>
    ELSE LET row == RaceUpdated(races[race_id], start, end, st)
         IN  IF RaceChecks(row)
             THEN /\ races' = [races EXCEPT ![race_id] = row]
                  /\ Respond("update_race", "ok")
                  /\ UNCHANGED <<raceDays, raceResults, sessions>>
             ELSE /\ Respond("update_race", "IntegrityError")
                  /\ UNCHANGED <<races, raceDays, raceResults, sessions>>

\* delete_race as a removal of the row and, by cascade, of its days and results.
DeleteRaceRemoving(race_id) ==
    IF race_id \notin DOMAIN races
    THEN /\ Respond("delete_race", "NotFound")
         /\ UNCHANGED <<races, raceDays, raceResults, sessions>>
    ELSE /\ races' = [r \in DOMAIN races \ {race_id} |-> races[r]]
         /\ raceDays' = [d \in {x \in DOMAIN raceDays : raceDays[x].race_id # race_id}
                            |-> raceDays[d]]
         /\ raceResults' = [r \in {x \in BagToSet(raceResults) :
                                      x.race_day_id \in DOMAIN raceDays'}
                               |-> raceResults[r]]
         /\ Respond("delete_race", "ok")
         /\ UNCHANGED sessions

delete_race(race_id) ==
    IF race_id \notin DOMAIN races
    THEN /\ Respond("delete_race", "NotFound")
         /\ UNCHANGED <<races, raceDays, raceResults, sessions>>
    ELSE /\ races' = [races EXCEPT ![race_id].status = "cancelled"]
         /\ Respond("delete_race", "ok")
         /\ UNCHANGED <<raceDays, raceResults, sessions>>

(* ----------------------------- race days ------------------------------ *)
OutOfRange(race, race_date) ==
    race_date < race.start_date \/ race_date > race.end_date

DayNumberTaken(ds, race_id, day_number, except) ==
    \E d \in DOMAIN ds \ except :
        ds[d].race_id = race_id /\ ds[d].day_number = day_number

\* The row RaceDay(**race_day.model_dump()) builds: race_id is the body's.
NewRaceDay(body_race_id, day_number, race_date, st) ==
    [race_id |-> body_race_id, day_number |-> day_number, race_date |-> race_date,
     status |-> IF st = Unset THEN DefaultStatus ELSE Given(st),
     total_participants |-> 0]

\* create_race_day without its day_number lookup.
CreateRaceDayRefusalNoLookup(race_id, day_number, race_date) ==
    IF race_id \notin DOMAIN races THEN "NotFound"
    ELSE IF OutOfRange(races[race_id], race_date) THEN "InvalidRange"
    ELSE "ok"

\* The checks create_race_day makes before it builds the row.
CreateRaceDayRefusal(race_id, day_number, race_date) ==
    IF race_id \notin DOMAIN races THEN "NotFound"
    ELSE IF OutOfRange(races[race_id], race_date) THEN "InvalidRange"
    ELSE IF DayNumberTaken(raceDays, race_id, day_number, {}) THEN "DuplicateDayNumber"
    ELSE "ok"

\* db.add(db_race_day); db.commit()
InsertRaceDay(row) ==
    LET ds == raceDays @@ (FreshId(DOMAIN raceDays) :> row)
    IN  IF RaceDayChecks(races, ds)
        THEN /\ raceDays' = ds
             /\ Respond("create_race_day", "ok")
        ELSE /\ Respond("create_race_day", "IntegrityError")
             /\ UNCHANGED raceDays

create_race_day(race_id, body_race_id, day_number, race_date, st) ==
    LET err == CreateRaceDayRefusal(race_id, day_number, race_date)
    IN  IF err # "ok"
        THEN /\ Respond("create_race_day", err)
             /\ UNCHANGED <<races, raceDays, raceResults, sessions>>
        ELSE /\ InsertRaceDay(NewRaceDay(body_race_id, day_number, race_date, st))
             /\ UNCHANGED <<races, raceResults, sessions>>

RaceDayUpdated(day, day_number, race_date, st) ==
    [day EXCEPT !.day_number = IF day_number = Unset THEN @ ELSE Given(day_number),
                !.race_date = IF race_date = Unset THEN @ ELSE Given(race_date),
                !.status = IF st = Unset THEN @ ELSE Given(st)]

\* The checks update_race_day makes on the row and the parent race it loaded.
UpdateRaceDayRefusal(race_day_id, day_number, race_date) ==
    IF race_day_id \notin DOMAIN raceDays THEN "NotFound"
    ELSE IF /\ race_date # Unset
            /\ OutOfRange(races[raceDays[race_day_id].race_id], Given(race_date))
    THEN "InvalidRange"
    ELSE IF /\ day_number # Unset
            /\ DayNumberTaken(raceDays, raceDays[race_day_id].race_id,
                              Given(day_number), {race_day_id})
    THEN "DuplicateDayNumber"
    ELSE "ok"

\* The UPDATE the commit flushes: the columns whose value differs from the one
\* loaded, written to the row as it is stored now.
RaceDayFlushed(stored, loaded, target) ==
    [f \in DOMAIN stored |-> IF target[f] # loaded[f] THEN target[f] ELSE stored[f]]

WriteRaceDay(race_day_id, loaded, target) ==
    IF race_day_id \notin DOMAIN raceDays
    THEN /\ Respond("update_race_day", "StaleDataError")
         /\ UNCHANGED raceDays
    ELSE LET ds == [raceDays EXCEPT ![race_day_id] = RaceDayFlushed(@, loaded, target)]
         IN  IF RaceDayChecks(races, ds)
             THEN /\ raceDays' = ds
                  /\ Respond("update_race_day", "ok")
             ELSE /\ Respond("update_race_day", "IntegrityError")
                  /\ UNCHANGED raceDays

update_race_day(race_day_id, day_number, race_date, st) ==
    LET err == UpdateRaceDayRefusal(race_day_id, day_number, race_date)
    IN  IF err # "ok"
        THEN /\ Respond("update_race_day", err)
             /\ UNCHANGED <<races, raceDays, raceResults, sessions>>
        ELSE /\ WriteRaceDay(race_day_id, raceDays[race_day_id],
                             RaceDayUpdated(raceDays[race_day_id], day_number, race_date, st))
             /\ UNCHANGED <<races, raceResults, sessions>>

\* delete_race_day with the results left behind.
DeleteRaceDayKeepResults(race_day_id) ==
    IF race_day_id \notin DOMAIN raceDays
    THEN /\ Respond("delete_race_day", "NotFound")
         /\ UNCHANGED <<races, raceDays, raceResults, sessions>>
    ELSE /\ raceDays' = [d \in DOMAIN raceDays \ {race_day_id} |-> raceDays[d]]
         /\ Respond("delete_race_day", "ok")
         /\ UNCHANGED <<races, raceResults, sessions>>

\* db.delete(race_day): the results go with it (cascade="all, delete-orphan").
delete_race_day(race_day_id) ==
    IF race_day_id \notin DOMAIN raceDays
    THEN /\ Respond("delete_race_day", "NotFound")
         /\ UNCHANGED <<races, raceDays, raceResults, sessions>>
    ELSE /\ raceDays' = [d \in DOMAIN raceDays \ {race_day_id} |-> raceDays[d]]
         /\ raceResults' = RemoveDay(raceResults, race_day_id)
         /\ Respond("delete_race_day", "ok")
         /\ UNCHANGED <<races, sessions>>


\* ForeignKey("races.id", ondelete="CASCADE"): the days whose race is still stored.
DaysCascaded(rs, ds) == [d \in {x \in DOMAIN ds : ds[x].race_id \in DOMAIN rs} |-> ds[d]]

\* ForeignKey("race_days.id", ondelete="CASCADE"): the results whose day is still stored.
ResultsCascaded(ds, res) ==
    [r \in {x \in BagToSet(res) : x.race_day_id \in DOMAIN ds} |-> res[r]]

\* scripts/seed_data.py, clearing before a reseed: every result row deleted,
\* then every race; the race days go by the foreign key's cascade.
clear_existing_data ==
    /\ races' = <<>>
    /\ raceDays' = DaysCascaded(<<>>, raceDays)
    /\ raceResults' = ResultsCascaded(raceDays', EmptyBag)
    /\ Respond("clear_existing_data", "ok")
    /\ UNCHANGED sessions

(* ---------------------------- race results ---------------------------- *)
\* A submitted result: the body's race_day_id and position.
ResultRow(race_day_id, position) == [race_day_id |-> race_day_id, position |-> position]
\* A result_id no stored row has.
NoRow == ResultRow(0, 0)

\* The duplicate test taken over (race_day_id, position) instead of position.
DuplicateRows(results) ==
    Len(results) # Cardinality({results[i] : i \in DOMAIN results})

\* len(positions) != len(set(positions))
DuplicatePositions(results) ==
    Len(results) # Cardinality({results[i].position : i \in DOMAIN results})

\* The status set to completed whatever it was.
DayAfterResultsAlwaysCompleted(day, results) ==
    [day EXCEPT !.total_participants = Len(results), !.status = "completed"]

\* race_day.total_participants = len(results); scheduled becomes completed.
DayAfterResults(day, results) ==
    [day EXCEPT !.total_participants = Len(results),
                !.status = IF @ = "scheduled" THEN "completed" ELSE @]

\* The bulk delete of the path day's rows, then one insert per submitted result
\* under the race_day_id its own body carries.
ResultsReplaced(res, race_day_id, results) ==
    RemoveDay(res, race_day_id) (+) SeqToBag(results)

\* The session of a request is one transaction scoped to the request: when
\* the request fails, closing the session discards what it had written.
get_db_closed(committed, written) == committed

\* The bulk replacement with the delete committed on its own, ahead of the
\* inserts.
add_race_results_delete_first(race_day_id, results) ==
    IF race_day_id \notin DOMAIN raceDays
    THEN /\ Respond("add_race_results", "NotFound")
         /\ UNCHANGED <<races, raceDays, raceResults, sessions>>
    ELSE IF DuplicatePositions(results)
    THEN /\ Respond("add_race_results", "DuplicatePosition")
         /\ UNCHANGED <<races, raceDays, raceResults, sessions>>
    ELSE LET res == ResultsReplaced(raceResults, race_day_id, results)
         IN  IF RaceResultChecks(raceDays, res)
             THEN /\ raceResults' = res
                  /\ raceDays' = [raceDays EXCEPT ![race_day_id] =
                                      DayAfterResults(@, results)]
                  /\ Respond("add_race_results", "ok")
                  /\ UNCHANGED <<races, sessions>>
             ELSE /\ raceResults' = RemoveDay(raceResults, race_day_id)
                  /\ Respond("add_race_results", "IntegrityError")
                  /\ UNCHANGED <<races, raceDays, sessions>>

add_race_results(race_day_id, results) ==
    IF race_day_id \notin DOMAIN raceDays
    THEN /\ Respond("add_race_results", "NotFound")
         /\ UNCHANGED <<races, raceDays, raceResults, sessions>>
    ELSE IF DuplicatePositions(results)
    THEN /\ Respond("add_race_results", "DuplicatePosition")
         /\ UNCHANGED <<races, raceDays, raceResults, sessions>>
    ELSE LET res == ResultsReplaced(raceResults, race_day_id, results)
             days == [raceDays EXCEPT ![race_day_id] = DayAfterResults(@, results)]
         IN  IF RaceResultChecks(raceDays, res)
             THEN /\ raceResults' = res
                  /\ raceDays' = days
                  /\ Respond("add_race_results", "ok")
                  /\ UNCHANGED <<races, sessions>>
             ELSE /\ raceResults' = get_db_closed(raceResults, res)
                  /\ raceDays' = get_db_closed(raceDays, days)
                  /\ Respond("add_race_results", "IntegrityError")
                  /\ UNCHANGED <<races, sessions>>

\* One stored row replaced by another.
RowReplaced(res, row, new) == (res (-) OneRow(row)) (+) OneRow(new)

\* PUT /admin/races/results/{result_id}: every field of the body is set, the
\* race_day_id among them.
update_race_result(row, race_day_id, position) ==
    IF ~BagIn(row, raceResults)
    THEN /\ Respond("update_race_result", "NotFound")
         /\ UNCHANGED <<races, raceDays, raceResults, sessions>>
    ELSE LET res == RowReplaced(raceResults, row, ResultRow(race_day_id, position))
         IN  IF RaceResultChecks(raceDays, res)
             THEN /\ raceResults' = res
                  /\ Respond("update_race_result", "ok")
                  /\ UNCHANGED <<races, raceDays, sessions>>
             ELSE /\ Respond("update_race_result", "IntegrityError")
                  /\ UNCHANGED <<races, raceDays, raceResults, sessions>>

\* PUT /admin/race-results/{result_id}: the body has no race_day_id.
participant_update_race_result(row, position) ==
    IF ~BagIn(row, raceResults)
    THEN /\ Respond("participant_update_race_result", "NotFound")
         /\ UNCHANGED <<races, raceDays, raceResults, sessions>>
    ELSE LET res == RowReplaced(raceResults, row, ResultRow(row.race_day_id, position))
         IN  IF RaceResultChecks(raceDays, res)
             THEN /\ raceResults' = res
                  /\ Respond("participant_update_race_result", "ok")
                  /\ UNCHANGED <<races, raceDays, sessions>>
             ELSE /\ Respond("participant_update_race_result", "IntegrityError")
                  /\ UNCHANGED <<races, raceDays, raceResults, sessions>>

\* DELETE of one result, the same handler under both routers.
delete_race_result(row) ==
    IF ~BagIn(row, raceResults)
    THEN /\ Respond("delete_race_result", "NotFound")
         /\ UNCHANGED <<races, raceDays, raceResults, sessions>>
    ELSE /\ raceResults' = raceResults (-) OneRow(row)
         /\ Respond("delete_race_result", "ok")
         /\ UNCHANGED <<races, raceDays, sessions>>

\* POST /admin/race-results: RaceResult(race_id=...) names a column the table
\* does not have, so the constructor raises before anything is added.
create_race_result(race_id, position) ==
    /\ Respond("create_race_result",
               IF race_id \notin DOMAIN races THEN "NotFound" ELSE "TypeError")
    /\ UNCHANGED <<races, raceDays, raceResults, sessions>>

(* ------------------- race days, requests in flight -------------------- *)
\* Two workers serve requests on separate sessions: a handler's reads see the
\* rows committed when it runs them, its writes land at its commit.
Idle == [pc |-> "idle"]

begin_create_race_day(c, race_id, body_race_id, day_number, race_date, st) ==
    /\ sessions[c].pc = "idle"
    /\ LET err == CreateRaceDayRefusal(race_id, day_number, race_date)
       IN  IF err # "ok"
           THEN /\ Respond("create_race_day", err)
                /\ UNCHANGED <<races, raceDays, raceResults, sessions>>
           ELSE /\ sessions' = [sessions EXCEPT ![c] =
                       [pc |-> "create_race_day",
                        row |-> NewRaceDay(body_race_id, day_number, race_date, st)]]
                /\ UNCHANGED <<races, raceDays, raceResults, last>>

commit_create_race_day(c) ==
    /\ sessions[c].pc = "create_race_day"
    /\ InsertRaceDay(sessions[c].row)
    /\ sessions' = [sessions EXCEPT ![c] = Idle]
    /\ UNCHANGED <<races, raceResults>>

begin_update_race_day(c, race_day_id, day_number, race_date, st) ==
    /\ sessions[c].pc = "idle"
    /\ LET err == UpdateRaceDayRefusal(race_day_id, day_number, race_date)
       IN  IF err # "ok"
           THEN /\ Respond("update_race_day", err)
                /\ UNCHANGED <<races, raceDays, raceResults, sessions>>
           ELSE /\ sessions' = [sessions EXCEPT ![c] =
                       [pc |-> "update_race_day", id |-> race_day_id,
                        loaded |-> raceDays[race_day_id],
                        target |-> RaceDayUpdated(raceDays[race_day_id],
                                                  day_number, race_date, st)]]
                /\ UNCHANGED <<races, raceDays, raceResults, last>>

commit_update_race_day(c) ==
    /\ sessions[c].pc = "update_race_day"
    /\ WriteRaceDay(sessions[c].id, sessions[c].loaded, sessions[c].target)
    /\ sessions' = [sessions EXCEPT ![c] = Idle]
    /\ UNCHANGED <<races, raceResults>>

(* ------------------------- owners and bulls --------------------------- *)
\* owners is the set of stored owner ids; a bull row holds its owner_id, its
\* registration_number ({} when it has none) and is_active.
OwnerIdArgs == 1..(MaxOwners + 1)
BullIdArgs == 1..(MaxBulls + 1)
RegNumbers == 1..MaxReg

\* The bulls table without its foreign key to owners.
BullChecksNoOwner(os, bs) ==
    \A b1, b2 \in DOMAIN bs :
        (bs[b1].registration_number # Unset
            /\ bs[b1].registration_number = bs[b2].registration_number) => b1 = b2

\* bulls: owner_id NOT NULL with its foreign key to owners (ondelete RESTRICT),
\* registration_number unique.
BullChecks(os, bs) ==
    /\ \A b \in DOMAIN bs : bs[b].owner_id \in os
    /\ \A b1, b2 \in DOMAIN bs :
          (bs[b1].registration_number # Unset
              /\ bs[b1].registration_number = bs[b2].registration_number) => b1 = b2

\* race_results.bull1_id, bull2_id: foreign keys to bulls (ondelete RESTRICT).
BullReferenced(trs, bull_id) ==
    \E i \in DOMAIN trs : trs[i].bull1_id = {bull_id} \/ trs[i].bull2_id = {bull_id}

create_owner ==
    /\ owners' = owners \cup {FreshId(owners)}
    /\ Respond("create_owner", "ok")
    /\ UNCHANGED <<bulls, sessions>>

create_bull(owner_id, registration_number) ==
    IF owner_id \notin owners
    THEN /\ Respond("create_bull", "NotFound")
         /\ UNCHANGED <<owners, bulls, sessions>>
    ELSE IF /\ registration_number # Unset
            /\ \E b \in DOMAIN bulls : bulls[b].registration_number = registration_number
    THEN /\ Respond("create_bull", "DuplicateRegistration")
         /\ UNCHANGED <<owners, bulls, sessions>>
    ELSE LET row == [owner_id |-> owner_id, registration_number |-> registration_number,
                     is_active |-> TRUE]
             bs == bulls @@ (FreshId(DOMAIN bulls) :> row)
         IN  IF BullChecks(owners, bs)
             THEN /\ bulls' = bs
                  /\ Respond("create_bull", "ok")
                  /\ UNCHANGED <<owners, sessions>>
             ELSE /\ Respond("create_bull", "IntegrityError")
                  /\ UNCHANGED <<owners, bulls, sessions>>

BullUpdated(bull, owner_id, is_active) ==
    [bull EXCEPT !.owner_id = IF owner_id = Unset THEN @ ELSE Given(owner_id),
                 !.is_active = IF is_active = Unset THEN @ ELSE Given(is_active)]

update_bull(bull_id, owner_id, is_active) ==
    IF bull_id \notin DOMAIN bulls
    THEN /\ Respond("update_bull", "NotFound")
         /\ UNCHANGED <<owners, bulls, sessions>>
    ELSE IF /\ owner_id # Unset
            /\ Given(owner_id) # bulls[bull_id].owner_id
            /\ Given(owner_id) \notin owners
    THEN /\ Respond("update_bull", "NotFound")
         /\ UNCHANGED <<owners, bulls, sessions>>
    ELSE LET bs == [bulls EXCEPT ![bull_id] = BullUpdated(@, owner_id, is_active)]
         IN  IF BullChecks(owners, bs)
             THEN /\ bulls' = bs
                  /\ Respond("update_bull", "ok")
                  /\ UNCHANGED <<owners, sessions>>
             ELSE /\ Respond("update_bull", "IntegrityError")
                  /\ UNCHANGED <<owners, bulls, sessions>>

delete_bull(bull_id) ==
    IF bull_id \notin DOMAIN bulls
    THEN /\ Respond("delete_bull", "NotFound")
         /\ UNCHANGED <<owners, bulls, sessions>>
    ELSE IF BullReferenced(teamResults, bull_id)
    THEN /\ Respond("delete_bull", "IntegrityError")
         /\ UNCHANGED <<owners, bulls, sessions>>
    ELSE /\ bulls' = [b \in DOMAIN bulls \ {bull_id} |-> bulls[b]]
         /\ Respond("delete_bull", "ok")
         /\ UNCHANGED <<owners, sessions>>

\* delete_owner up to db.delete(owner): the count of the owner's bulls, then
\* the lookup of the owner.
begin_delete_owner(c, owner_id) ==
    /\ sessions[c].pc = "idle"
    /\ IF \E b \in DOMAIN bulls : bulls[b].owner_id = owner_id
       THEN /\ Respond("delete_owner", "OwnerHasBulls")
            /\ UNCHANGED <<owners, bulls, sessions>>
       ELSE IF owner_id \notin owners
       THEN /\ Respond("delete_owner", "NotFound")
            /\ UNCHANGED <<owners, bulls, sessions>>
       ELSE /\ sessions' = [sessions EXCEPT ![c] = [pc |-> "delete_owner", id |-> owner_id]]
            /\ UNCHANGED <<owners, bulls, last>>

\* db.delete(owner); db.commit(): refused by the database while a bull row
\* committed in the meantime holds the owner's id.
commit_delete_owner(c) ==
    /\ sessions[c].pc = "delete_owner"
    /\ LET os == owners \ {sessions[c].id}
       IN  IF BullChecks(os, bulls)
           THEN /\ owners' = os
                /\ Respond("delete_owner", "ok")
           ELSE /\ Respond("delete_owner", "IntegrityError")
                /\ UNCHANGED owners
    /\ sessions' = [sessions EXCEPT ![c] = Idle]
    /\ UNCHANGED bulls

(* ------------------------- user bull listings ------------------------- *)
\* A user_bulls_sell row holds its user_id, status, created_at and expires_at;
\* times are whole days on the clock now.  The columns no condition reads
\* (name, price, image_url, updated_at, ...) are left out.
MAX_BULLS_PER_USER == 5
ListingDays == 30

Users == 1..NumUsers
Prices == 0..MaxPrice
\* The status values update_bull_listing accepts.
UpdateStatuses == {"available", "sold", "expired"}
\* The status values a request may carry; "featured" stands for any other text.
StatusArgs == UpdateStatuses \cup {"hidden", "featured"}

AvailableCount(ubs, user_id) ==
    Cardinality({i \in DOMAIN ubs : ubs[i].user_id = user_id /\ ubs[i].status = "available"})

NewListing(user_id, t) ==
    [user_id |-> user_id, status |-> "available", created_at |-> t,
     expires_at |-> t + ListingDays]

\* create_bull_listing up to the await of the image upload: the count of the
\* user's available listings, then the image and the price.
begin_create_bull_listing(c, user_id, image_ok, price) ==
    /\ sessions[c].pc = "idle"
    /\ IF AvailableCount(userBullsSell, user_id) >= MAX_BULLS_PER_USER
       THEN /\ Respond("create_bull_listing", "LimitReached")
            /\ UNCHANGED <<userBullsSell, sessions>>
       ELSE IF ~image_ok
       THEN /\ Respond("create_bull_listing", "InvalidImage")
            /\ UNCHANGED <<userBullsSell, sessions>>
       ELSE IF price <= 0
       THEN /\ Respond("create_bull_listing", "InvalidPrice")
            /\ UNCHANGED <<userBullsSell, sessions>>
       ELSE /\ sessions' = [sessions EXCEPT ![c] =
                               [pc |-> "create_bull_listing", user_id |-> user_id]]
            /\ UNCHANGED <<userBullsSell, last>>

\* The upload answered: the row is built with expires_at 30 days from now and
\* committed.
commit_create_bull_listing(c, uploaded) ==
    /\ sessions[c].pc = "create_bull_listing"
    /\ IF ~uploaded
       THEN /\ Respond("create_bull_listing", "UploadFailed")
            /\ UNCHANGED userBullsSell
       ELSE /\ userBullsSell' = userBullsSell @@
                   (FreshId(DOMAIN userBullsSell) :> NewListing(sessions[c].user_id, now))
            /\ Respond("create_bull_listing", "ok")
    /\ sessions' = [sessions EXCEPT ![c] = Idle]

update_bull_listing(user_id, bull_id, price, st) ==
    IF ~(bull_id \in DOMAIN userBullsSell /\ userBullsSell[bull_id].user_id = user_id)
    THEN /\ Respond("update_bull_listing", "NotFound")
         /\ UNCHANGED <<userBullsSell, sessions>>
    ELSE IF price # Unset /\ Given(price) <= 0
    THEN /\ Respond("update_bull_listing", "InvalidPrice")
         /\ UNCHANGED <<userBullsSell, sessions>>
    ELSE IF st # Unset /\ Given(st) \notin UpdateStatuses
    THEN /\ Respond("update_bull_listing", "InvalidStatus")
         /\ UNCHANGED <<userBullsSell, sessions>>
    ELSE /\ userBullsSell' = [userBullsSell EXCEPT ![bull_id].status =
                                 IF st = Unset THEN @ ELSE Given(st)]
         /\ Respond("update_bull_listing", "ok")
         /\ UNCHANGED sessions

delete_bull_listing(user_id, bull_id) ==
    IF ~(bull_id \in DOMAIN userBullsSell /\ userBullsSell[bull_id].user_id = user_id)
    THEN /\ Respond("delete_bull_listing", "NotFound")
         /\ UNCHANGED <<userBullsSell, sessions>>
    ELSE /\ userBullsSell' = [i \in DOMAIN userBullsSell \ {bull_id} |-> userBullsSell[i]]
         /\ Respond("delete_bull_listing", "ok")
         /\ UNCHANGED sessions

\* The expiry job: every available listing whose expires_at has passed.
expire_old_listings ==
    /\ userBullsSell' = [i \in DOMAIN userBullsSell |->
          IF userBullsSell[i].status = "available" /\ userBullsSell[i].expires_at <= now
          THEN [userBullsSell[i] EXCEPT !.status = "expired"]
          ELSE userBullsSell[i]]
    /\ Respond("expire_old_listings", "ok")
    /\ UNCHANGED sessions

\* The public list's filter without its test of expires_at.
ForSaleAnyAge(ubs, t) == {i \in DOMAIN ubs : ubs[i].status = "available"}

\* The public list's filter: available and not yet expired.
ForSale(ubs, t) ==
    {i \in DOMAIN ubs : ubs[i].status = "available" /\ ubs[i].expires_at > t}

\* The orders ORDER BY created_at DESC may return the ids in.
NewestFirst(ubs, ids) ==
    {q \in [1..Cardinality(ids) -> ids] :
        /\ \A i, j \in DOMAIN q : i # j => q[i] # q[j]
        /\ \A i, j \in DOMAIN q : i < j => ubs[q[i]].created_at >= ubs[q[j]].created_at}

Page(q, skip, limit) ==
    SubSeq(q, skip + 1, IF skip + limit < Len(q) THEN skip + limit ELSE Len(q))

\* The response names the clock reading it was answered at; of each row it
\* keeps the id and created_at.
get_user_bulls_for_sale(skip, limit) ==
    /\ \E q \in NewestFirst(userBullsSell, ForSale(userBullsSell, now)) :
          response' = [at |-> now,
                       rows |-> [k \in DOMAIN Page(q, skip, limit) |->
                                    [id |-> Page(q, skip, limit)[k],
                                     created_at |-> userBullsSell[Page(q, skip, limit)[k]].created_at]]]
    /\ Respond("get_user_bulls_for_sale", "ok")
    /\ UNCHANGED <<userBullsSell, sessions>>

\* Time passes.
Tick ==
    /\ now + ClockStep <= MaxNow
    /\ now' = now + ClockStep

(* ------------------------- marketplace listings ----------------------- *)
\* A marketplace_listings row holds its status.
create_marketplace_item(uploaded) ==
    IF ~uploaded
    THEN /\ Respond("create_marketplace_item", "UploadFailed")
         /\ UNCHANGED marketplaceListings
    ELSE /\ marketplaceListings' = marketplaceListings @@
                (FreshId(DOMAIN marketplaceListings) :> [status |-> "available"])
         /\ Respond("create_marketplace_item", "ok")

\* if status: listing.status = status, whatever the text.
update_marketplace_item(listing_id, st) ==
    IF listing_id \notin DOMAIN marketplaceListings
    THEN /\ Respond("update_marketplace_item", "NotFound")
         /\ UNCHANGED marketplaceListings
    ELSE /\ marketplaceListings' = [marketplaceListings EXCEPT ![listing_id].status =
                                       IF st = Unset THEN @ ELSE Given(st)]
         /\ Respond("update_marketplace_item", "ok")

delete_marketplace_item(listing_id) ==
    IF listing_id \notin DOMAIN marketplaceListings
    THEN /\ Respond("delete_marketplace_item", "NotFound")
         /\ UNCHANGED marketplaceListings
    ELSE /\ marketplaceListings' =
                [i \in DOMAIN marketplaceListings \ {listing_id} |-> marketplaceListings[i]]
         /\ Respond("delete_marketplace_item", "ok")

(* --------------------------- bull statistics -------------------------- *)
\* A teamResults row is a race_results row seen by the statistics: bull1_id and
\* bull2_id ({} when null), position, is_disqualified and time_milliseconds.
StatPositions == 1..(MaxPos + 1)
Times == 1..MaxTime

TeamRow(b1, b2, position, dq, t) ==
    [bull1_id |-> b1, bull2_id |-> b2, position |-> position,
     is_disqualified |-> dq, time_milliseconds |-> t]

Least(S) == CHOOSE x \in S : \A y \in S : x <= y

RECURSIVE SumTimes(_, _)
SumTimes(trs, I) ==
    IF I = {} THEN 0
    ELSE LET i == CHOOSE x \in I : TRUE
         IN  trs[i].time_milliseconds + SumTimes(trs, I \ {i})

\* The rows of a bull with the test of slot bull2 left out.
CountedFirstSlot(trs, bull_id) ==
    {i \in DOMAIN trs : trs[i].bull1_id = {bull_id} /\ ~trs[i].is_disqualified}

\* or_(bull1_id == bull.id, bull2_id == bull.id), is_disqualified == False
Counted(trs, bull_id) ==
    {i \in DOMAIN trs :
        /\ trs[i].bull1_id = {bull_id} \/ trs[i].bull2_id = {bull_id}
        /\ ~trs[i].is_disqualified}

PlaceCount(trs, bull_id, position) ==
    Cardinality({i \in Counted(trs, bull_id) : trs[i].position = position})

\* func.min over the bull's rows: null over no rows.
BestTime(trs, bull_id) ==
    IF Counted(trs, bull_id) = {} THEN Unset
    ELSE {Least({trs[i].time_milliseconds : i \in Counted(trs, bull_id)})}

\* The average answered as 0 over no rows.
AvgTimeOrZero(trs, bull_id) ==
    IF Counted(trs, bull_id) = {} THEN {0}
    ELSE {SumTimes(trs, Counted(trs, bull_id)) \div Cardinality(Counted(trs, bull_id))}

\* int(avg_time) if avg_time else None, func.avg being null over no rows.
AvgTime(trs, bull_id) ==
    IF Counted(trs, bull_id) = {} THEN Unset
    ELSE {SumTimes(trs, Counted(trs, bull_id)) \div Cardinality(Counted(trs, bull_id))}

Statistics(trs, bull_id) ==
    [total_races |-> Cardinality(Counted(trs, bull_id)),
     first_place_wins |-> PlaceCount(trs, bull_id, 1),
     second_place_wins |-> PlaceCount(trs, bull_id, 2),
     third_place_wins |-> PlaceCount(trs, bull_id, 3),
     best_time_milliseconds |-> BestTime(trs, bull_id),
     avg_time_milliseconds |-> AvgTime(trs, bull_id)]

get_bull_detail_public(bull_id) ==
    IF ~(bull_id \in DOMAIN bulls /\ bulls[bull_id].is_active)
    THEN /\ Respond("get_bull_detail_public", "NotFound")
         /\ response' = NoBody
    ELSE /\ response' = [id |-> bull_id, statistics |-> Statistics(teamResults, bull_id)]
         /\ Respond("get_bull_detail_public", "ok")

\* The active bulls in the order of the list (the model's ids stand in name
\* order), then offset and limit.
RECURSIVE Ascending(_)
Ascending(S) ==
    IF S = {} THEN <<>> ELSE <<Least(S)>> \o Ascending(S \ {Least(S)})

ActiveBulls(bs) == Ascending({b \in DOMAIN bs : bs[b].is_active})

\* func.coalesce(bull1_id, bull2_id): the key the three scans group by.
GroupKey(row) == IF row.bull1_id # Unset THEN row.bull1_id ELSE row.bull2_id

\* The rows the scans read: either slot among the page's bulls, not disqualified.
Scanned(trs, bull_ids) ==
    {i \in DOMAIN trs :
        /\ \/ trs[i].bull1_id # Unset /\ Given(trs[i].bull1_id) \in bull_ids
           \/ trs[i].bull2_id # Unset /\ Given(trs[i].bull2_id) \in bull_ids
        /\ ~trs[i].is_disqualified}

\* The group of a bull in the scans' result.
Grouped(trs, bull_ids, bull_id) ==
    {i \in Scanned(trs, bull_ids) : GroupKey(trs[i]) = {bull_id}}

BatchStatistics(trs, bull_ids, bull_id) ==
    [total_races |-> Cardinality(Grouped(trs, bull_ids, bull_id)),
     first_place_wins |->
        Cardinality({i \in Grouped(trs, bull_ids, bull_id) : trs[i].position = 1}),
     best_time_milliseconds |->
        IF Grouped(trs, bull_ids, bull_id) = {} THEN Unset
        ELSE {Least({trs[i].time_milliseconds : i \in Grouped(trs, bull_ids, bull_id)})}]

list_bulls_public(skip, limit) ==
    LET page == Page(ActiveBulls(bulls), skip, limit)
        bull_ids == {page[k] : k \in DOMAIN page}
    IN  /\ response' = [k \in DOMAIN page |->
                           [id |-> page[k],
                            statistics |-> BatchStatistics(teamResults, bull_ids, page[k])]]
        /\ Respond("list_bulls_public", "ok")

(* ------------------------- leaderboard service ------------------------ *)
\* app/services/leaderboard.py over the tables it names.  regions holds the
\* containment tree: the stored district ids and, for every taluka, tahsil and
\* village, the id of its parent.  A datedRaces row is a race as the service
\* reads it (race_date, status, village_id), a bullResults row a result
\* (bull_id, race_id, position, time_milliseconds, is_disqualified), a
\* leaderboard row a cached entry.  A date is <<year, month, day>>.
TopN == 10
RegionTypes == {"village", "tahsil", "taluka", "district"}
NoRegions == [districts |-> {}, talukas |-> <<>>, tahsils |-> <<>>, villages |-> <<>>]

DateBefore(a, b) ==
    \/ a[1] < b[1]
    \/ a[1] = b[1] /\ a[2] < b[2]
    \/ a[1] = b[1] /\ a[2] = b[2] /\ a[3] < b[3]

StartDate(year, month) == <<year, month, 1>>
EndDate(year, month) == IF month = 12 THEN <<year + 1, 1, 1>> ELSE <<year, month + 1, 1>>

\* The window with the first day of the next month let in.
InMonthClosed(race_date, year, month) ==
    /\ ~DateBefore(race_date, StartDate(year, month))
    /\ ~DateBefore(EndDate(year, month), race_date)

\* race_date >= start_date, race_date < end_date
InMonth(race_date, year, month) ==
    /\ ~DateBefore(race_date, StartDate(year, month))
    /\ DateBefore(race_date, EndDate(year, month))

\* The tahsils of a taluka resolved as the tahsils of every taluka.
TahsilsOfAny(rg, taluka_ids) == DOMAIN rg.tahsils

TalukasOf(rg, district_id) == {k \in DOMAIN rg.talukas : rg.talukas[k] = district_id}
TahsilsOf(rg, taluka_ids) == {t \in DOMAIN rg.tahsils : rg.tahsils[t] \in taluka_ids}
VillagesOf(rg, tahsil_ids) == {v \in DOMAIN rg.villages : rg.villages[v] \in tahsil_ids}

\* The village ids the region filter admits; every village id for a region
\* type the service does not know (no filter is applied then).
VillageIds(rg, region_type, region_id) ==
    IF region_type = "village" THEN {region_id}
    ELSE IF region_type = "tahsil" THEN VillagesOf(rg, {region_id})
    ELSE IF region_type = "taluka" THEN VillagesOf(rg, TahsilsOf(rg, {region_id}))
    ELSE IF region_type = "district"
    THEN VillagesOf(rg, TahsilsOf(rg, TalukasOf(rg, region_id)))
    ELSE DOMAIN rg.villages

\* A result of a completed race of the month that is not disqualified.
InWindow(rs, row, year, month) ==
    /\ row.race_id \in DOMAIN rs
    /\ InMonth(rs[row.race_id].race_date, year, month)
    /\ rs[row.race_id].status = "completed"
    /\ ~row.is_disqualified

\* The rows the grouped query joins and filters.
Joined(bs, rs, res, rg, year, month, region_type, region_id) ==
    {i \in DOMAIN res :
        /\ res[i].bull_id \in DOMAIN bs
        /\ InWindow(rs, res[i], year, month)
        /\ rs[res[i].race_id].village_id \in VillageIds(rg, region_type, region_id)}

\* count(nullif(position == 1, False)) and min(time_milliseconds) of a group.
TotalWins(res, rows, bull_id) ==
    Cardinality({i \in rows : res[i].bull_id = bull_id /\ res[i].position = 1})
BestOf(res, rows, bull_id) ==
    Least({res[i].time_milliseconds : i \in {j \in rows : res[j].bull_id = bull_id}})

\* The order with the slower bull first among equal wins.
LeadingSlowestFirst(res, rows, S) ==
    {b \in S : \A c \in S :
        \/ TotalWins(res, rows, b) > TotalWins(res, rows, c)
        \/ /\ TotalWins(res, rows, b) = TotalWins(res, rows, c)
           /\ BestOf(res, rows, b) >= BestOf(res, rows, c)}

\* The groups no other group of S goes before in ORDER BY wins DESC, best ASC.
Leading(res, rows, S) ==
    {b \in S : \A c \in S :
        \/ TotalWins(res, rows, b) > TotalWins(res, rows, c)
        \/ /\ TotalWins(res, rows, b) = TotalWins(res, rows, c)
           /\ BestOf(res, rows, b) <= BestOf(res, rows, c)}

\* Every order the database may return the groups in: groups equal in wins and
\* best time come in any order.
RECURSIVE Ordered(_, _, _)
Ordered(res, rows, S) ==
    IF S = {} THEN {<<>>}
    ELSE UNION {{<<b>> \o q : q \in Ordered(res, rows, S \ {b})} : b \in Leading(res, rows, S)}

Limited(q) == SubSeq(q, 1, IF Len(q) < TopN THEN Len(q) ELSE TopN)

\* total_races: the bull's rows of the window, whatever the village of the race.
TotalRaces(rs, res, rg, year, month, region_type, region_id, bull_id) ==
    Cardinality({i \in DOMAIN res :
        res[i].bull_id = bull_id /\ InWindow(rs, res[i], year, month)})

\* The lists compute_leaderboard_for_month may return.
compute_leaderboard_for_month(bs, rs, res, rg, year, month, region_type, region_id) ==
    LET rows == Joined(bs, rs, res, rg, year, month, region_type, region_id)
        groups == {res[i].bull_id : i \in rows}
    IN  {[k \in DOMAIN Limited(q) |->
            [rank |-> k,
             bull_id |-> q[k],
             total_wins |-> TotalWins(res, rows, q[k]),
             total_races |-> TotalRaces(rs, res, rg, year, month, region_type, region_id, q[k]),
             best_time_milliseconds |-> BestOf(res, rows, q[k])]] :
         q \in Ordered(res, rows, groups)}

(* -------------------------- leaderboard cache -------------------------- *)
\* The Leaderboard table is a function from the primary keys of the stored
\* rows to the rows; a recomputation deletes the rows of its key and adds one
\* row per computed entry, and both land at its one commit.

\* The Leaderboard rows of a key.
KeyRows(cache, key) ==
    {i \in DOMAIN cache : /\ cache[i].year = key.year
                          /\ cache[i].month = key.month
                          /\ cache[i].region_type = key.region_type
                          /\ cache[i].region_id = key.region_id}

\* Leaderboard(...) of one computed entry.
LeaderboardEntry(key, bull_data) ==
    [year |-> key.year, month |-> key.month,
     region_type |-> key.region_type, region_id |-> key.region_id,
     bull_id |-> bull_data.bull_id, rank |-> bull_data.rank,
     first_place_wins |-> bull_data.total_wins,
     total_races |-> bull_data.total_races,
     best_time_milliseconds |-> bull_data.best_time_milliseconds]

\* The delete of the rows found, those of them that are still stored.
Deleted(cache, victims) == [i \in DOMAIN cache \ victims |-> cache[i]]

\* db.add of every entry in turn; a primary key is never one in use, nor one
\* another session still holds.
RECURSIVE AddAll(_, _, _, _)
AddAll(cache, held, key, top_bulls) ==
    IF top_bulls = <<>> THEN cache
    ELSE AddAll(cache @@ (FreshId(DOMAIN cache \cup held) :>
                              LeaderboardEntry(key, Head(top_bulls))),
                held, key, Tail(top_bulls))

\* The delete of the rows found for the key, the inserts and the commit.
save_leaderboard_to_db(cache, victims, held, key, top_bulls) ==
    AddAll(Deleted(cache, victims), held, key, top_bulls)

\* The cache after compute_and_save_leaderboard computed top_bulls: an empty
\* list is not saved, and the rows of the key stay.
Saved(cache, key, top_bulls) ==
    IF top_bulls # <<>>
    THEN save_leaderboard_to_db(cache, KeyRows(cache, key), {}, key, top_bulls)
    ELSE cache

\* str(uuid): the text of an identifier.
str(id) == <<"str", id>>

\* order_by(Leaderboard.rank): every order of the rows S by rank, rows of
\* one rank in any order.
RECURSIVE ByRank(_, _)
ByRank(cache, S) ==
    IF S = {} THEN {<<>>}
    ELSE UNION {{<<i>> \o q : q \in ByRank(cache, S \ {i})} :
                   i \in {j \in S : \A k \in S : cache[j].rank <= cache[k].rank}}

\* The cache query: the rows of the key joined to their bulls, by rank, and
\* the entries answered from them.
CachedResults(cache, bs, key) ==
    ByRank(cache, {i \in KeyRows(cache, key) : cache[i].bull_id \in DOMAIN bs})

CachedEntry(row) ==
    [rank |-> row.rank, bull_id |-> str(row.bull_id),
     total_wins |-> row.first_place_wins, total_races |-> row.total_races,
     best_time_milliseconds |-> row.best_time_milliseconds]

FreshEntry(bull) == [bull EXCEPT !.bull_id = str(@)]

\* The keys refresh_all_leaderboards_for_month recomputes, in its order:
\* districts, talukas, tahsils, villages.
RefreshKeys(rg, year, month) ==
    LET keys(region_type, ids) ==
            [k \in 1..Len(ids) |-> [year |-> year, month |-> month,
                                    region_type |-> region_type, region_id |-> ids[k]]]
    IN  keys("district", Ascending(rg.districts)) \o
        keys("taluka", Ascending(DOMAIN rg.talukas)) \o
        keys("tahsil", Ascending(DOMAIN rg.tahsils)) \o
        keys("village", Ascending(DOMAIN rg.villages))

\* The caches the loop of refresh_all_leaderboards_for_month can leave.
RECURSIVE Refreshed(_, _, _, _, _, _)
Refreshed(cache, bs, rs, res, rg, keys) ==
    IF keys = <<>> THEN {cache}
    ELSE LET key == Head(keys)
         IN  UNION {Refreshed(Saved(cache, key, top_bulls), bs, rs, res, rg, Tail(keys)) :
                       top_bulls \in compute_leaderboard_for_month(
                                         bs, rs, res, rg, key.year, key.month,
                                         key.region_type, key.region_id)}

compute_and_save_leaderboard(year, month, region_type, region_id) ==
    LET key == [year |-> year, month |-> month,
                region_type |-> region_type, region_id |-> region_id]
    IN  \E top_bulls \in compute_leaderboard_for_month(bulls, datedRaces, bullResults, regions,
                                                       year, month, region_type, region_id) :
            /\ leaderboard' = Saved(leaderboard, key, top_bulls)
            /\ response' = top_bulls
            /\ request' = key
            /\ Respond("compute_and_save_leaderboard", "ok")
            /\ UNCHANGED <<bulls, regions, datedRaces, bullResults>>

\* The lookup that recomputes and saves whether or not rows are cached.
get_leaderboard_recomputing(year, month, region_type, region_id) ==
    LET key == [year |-> year, month |-> month,
                region_type |-> region_type, region_id |-> region_id]
    IN  \E top_bulls \in compute_leaderboard_for_month(bulls, datedRaces, bullResults, regions,
                                                       year, month, region_type, region_id) :
            /\ leaderboard' = Saved(leaderboard, key, top_bulls)
            /\ response' = [k \in DOMAIN top_bulls |-> FreshEntry(top_bulls[k])]
            /\ request' = key
            /\ Respond("get_leaderboard_from_db", "ok")
            /\ UNCHANGED <<bulls, regions, datedRaces, bullResults>>

get_leaderboard_from_db(year, month, region_type, region_id) ==
    LET key == [year |-> year, month |-> month,
                region_type |-> region_type, region_id |-> region_id]
    IN  /\ request' = key
        /\ Respond("get_leaderboard_from_db", "ok")
        /\ UNCHANGED <<bulls, regions, datedRaces, bullResults>>
        /\ \E results \in CachedResults(leaderboard, bulls, key) :
              IF results # <<>>
              THEN /\ response' = [k \in DOMAIN results |-> CachedEntry(leaderboard[results[k]])]
                   /\ UNCHANGED leaderboard
              ELSE \E top_bulls \in compute_leaderboard_for_month(
                                        bulls, datedRaces, bullResults, regions,
                                        year, month, region_type, region_id) :
                      /\ leaderboard' = Saved(leaderboard, key, top_bulls)
                      /\ response' = [k \in DOMAIN top_bulls |-> FreshEntry(top_bulls[k])]

\* compute_and_save_leaderboard, then get_leaderboard_from_db, then
\* compute_and_save_leaderboard again, for one key and with nothing else in
\* between; the three lists are answered together.
Looked(cache, bs, rs, res, rg, key) ==
    UNION {IF results # <<>>
           THEN {[results |-> [k \in DOMAIN results |-> CachedEntry(cache[results[k]])],
                  cache |-> cache]}
           ELSE {[results |-> [k \in DOMAIN top_bulls |-> FreshEntry(top_bulls[k])],
                  cache |-> Saved(cache, key, top_bulls)] :
                    top_bulls \in compute_leaderboard_for_month(
                                      bs, rs, res, rg, key.year, key.month,
                                      key.region_type, key.region_id)} :
             results \in CachedResults(cache, bs, key)}

round_trip(year, month, region_type, region_id) ==
    LET key == [year |-> year, month |-> month,
                region_type |-> region_type, region_id |-> region_id]
        computed == compute_leaderboard_for_month(bulls, datedRaces, bullResults, regions,
                                                  year, month, region_type, region_id)
    IN  \E first \in computed, second \in computed :
           \E looked \in Looked(Saved(leaderboard, key, first), bulls, datedRaces,
                                 bullResults, regions, key) :
              /\ leaderboard' = Saved(looked.cache, key, second)
              /\ response' = <<first, looked.results, second>>
              /\ request' = key
              /\ Respond("round_trip", "ok")
              /\ UNCHANGED <<bulls, regions, datedRaces, bullResults>>

refresh_all_leaderboards_for_month(year, month) ==
    /\ leaderboard' \in Refreshed(leaderboard, bulls, datedRaces, bullResults, regions,
                                  RefreshKeys(regions, year, month))
    /\ response' = Len(RefreshKeys(regions, year, month))
    /\ request' = [year |-> year, month |-> month]
    /\ Respond("refresh_all_leaderboards_for_month", "ok")
    /\ UNCHANGED <<bulls, regions, datedRaces, bullResults>>

\* Two workers recompute on separate sessions.  A recomputation's queries and
\* its delete see the rows committed when they run; the delete and the
\* inserts land at the commit of save_leaderboard_to_db.  A delete that finds
\* rows another session has deleted and not yet committed waits for that
\* commit and then finds those rows gone.
InFlightSave(key, top_bulls, victims, waits, op) ==
    [pc |-> "save_leaderboard_to_db", key |-> key, top_bulls |-> top_bulls,
     victims |-> victims, waits |-> waits, op |-> op]

Saving(ss) == {d \in DOMAIN ss : ss[d].pc = "save_leaderboard_to_db"}
HeldIds(ss) == UNION {ss[d].victims : d \in Saving(ss)}
\* The sessions whose uncommitted delete holds a row of victims.
Holders(ss, victims) == {d \in Saving(ss) : ss[d].victims \cap victims # {}}

begin_compute_and_save_leaderboard(c, year, month, region_type, region_id) ==
    LET key == [year |-> year, month |-> month,
                region_type |-> region_type, region_id |-> region_id]
        victims == KeyRows(leaderboard, key)
    IN  /\ sessions[c].pc = "idle"
        /\ Cardinality(DOMAIN leaderboard) <= MaxCacheRows
        /\ \E top_bulls \in compute_leaderboard_for_month(
                                  bulls, datedRaces, bullResults, regions,
                                  year, month, region_type, region_id) :
              IF top_bulls = <<>>
              THEN /\ response' = top_bulls
                   /\ request' = key
                   /\ Respond("compute_and_save_leaderboard", "ok")
                   /\ UNCHANGED sessions
              ELSE /\ sessions' = [sessions EXCEPT ![c] =
                          InFlightSave(key, top_bulls, victims, Holders(sessions, victims),
                                       "compute_and_save_leaderboard")]
                   /\ UNCHANGED <<last, request, response>>
        /\ UNCHANGED <<bulls, leaderboardTables>>

begin_get_leaderboard_from_db(c, year, month, region_type, region_id) ==
    LET key == [year |-> year, month |-> month,
                region_type |-> region_type, region_id |-> region_id]
    IN  /\ sessions[c].pc = "idle"
        /\ Cardinality(DOMAIN leaderboard) <= MaxCacheRows
        /\ \E results \in CachedResults(leaderboard, bulls, key) :
              IF results # <<>>
              THEN /\ response' = [k \in DOMAIN results |-> CachedEntry(leaderboard[results[k]])]
                   /\ request' = key
                   /\ Respond("get_leaderboard_from_db", "ok")
                   /\ UNCHANGED sessions
              ELSE \E top_bulls \in compute_leaderboard_for_month(
                                        bulls, datedRaces, bullResults, regions,
                                        year, month, region_type, region_id) :
                      IF top_bulls = <<>>
                      THEN /\ response' = top_bulls
                           /\ request' = key
                           /\ Respond("get_leaderboard_from_db", "ok")
                           /\ UNCHANGED sessions
                      ELSE /\ sessions' = [sessions EXCEPT ![c] =
                                  InFlightSave(key, top_bulls, KeyRows(leaderboard, key),
                                               Holders(sessions, KeyRows(leaderboard, key)),
                                               "get_leaderboard_from_db")]
                           /\ UNCHANGED <<last, request, response>>
        /\ UNCHANGED <<bulls, leaderboardTables>>

commit_save_leaderboard_to_db(c) ==
    /\ sessions[c].pc = "save_leaderboard_to_db"
    /\ sessions[c].waits = {}
    /\ leaderboard' = save_leaderboard_to_db(leaderboard, sessions[c].victims,
                                             HeldIds(sessions), sessions[c].key,
                                             sessions[c].top_bulls)
    /\ sessions' = [d \in DOMAIN sessions |->
                       IF d = c THEN Idle
                       ELSE IF sessions[d].pc = "save_leaderboard_to_db"
                            THEN [sessions[d] EXCEPT !.waits = @ \ {c}]
                            ELSE sessions[d]]
    /\ response' = IF sessions[c].op = "get_leaderboard_from_db"
                   THEN [k \in DOMAIN sessions[c].top_bulls |->
                            FreshEntry(sessions[c].top_bulls[k])]
                   ELSE sessions[c].top_bulls
    /\ request' = sessions[c].key
    /\ Respond(sessions[c].op, "ok")
    /\ UNCHANGED <<bulls, regions, datedRaces, bullResults>>

(* --------------------------- specifications --------------------------- *)
\* last is the handler and outcome of the request answered last; request is its
\* body, kept by the specifications whose properties read it.
NoSessions == [c \in Clients |-> Idle]
NoResponse == [op |-> "none", err |-> "ok"]
NoRequest == <<>>

\* A successful insert stays within the model's row budget.
Room(table, cap) == last'.err = "ok" => Cardinality(DOMAIN table) < cap

\* No region, no race or result of the leaderboard service, nothing cached.
LeaderboardEmpty ==
    /\ regions = NoRegions
    /\ datedRaces = <<>>
    /\ bullResults = <<>>
    /\ leaderboard = <<>>

\* Nothing stored beside the race hierarchy.
BeyondRacesEmpty ==
    /\ owners = {}
    /\ bulls = <<>>
    /\ userBullsSell = <<>>
    /\ marketplaceListings = <<>>
    /\ now = 0
    /\ teamResults = <<>>
    /\ response = NoBody
    /\ LeaderboardEmpty

\* The body of the request answered, in a step that touches the race hierarchy only.
Asked(body) == request' = body /\ UNCHANGED beyondRaces

Init ==
    /\ races = <<>>
    /\ raceDays = <<>>
    /\ raceResults = EmptyBag
    /\ sessions = NoSessions
    /\ last = NoResponse
    /\ request = NoRequest
    /\ BeyondRacesEmpty

\* The race hierarchy with every status left at its default.
Next ==
    \/ \E s, e \in Dates :
          create_race(s, e, Unset) /\ Room(races, MaxRaces) /\ UNCHANGED <<request, beyondRaces>>
    \/ \E id \in RaceIdArgs, s, e \in Opt(Dates) :
          update_race(id, s, e, Unset) /\ UNCHANGED <<request, beyondRaces>>
    \/ \E p, b \in RaceIdArgs, n \in DayNumbers, d \in Dates :
          create_race_day(p, b, n, d, Unset) /\ Room(raceDays, MaxDays) /\ UNCHANGED <<request, beyondRaces>>
    \/ \E id \in DayIdArgs, n \in Opt(DayNumbers), d \in Opt(Dates) :
          update_race_day(id, n, d, Unset) /\ UNCHANGED <<request, beyondRaces>>
    \/ \E id \in DayIdArgs : delete_race_day(id) /\ UNCHANGED <<request, beyondRaces>>

Spec == Init /\ [][Next]_vars

\* Races alone, with every field a request can set.
RaceDates == 1..RcDate
RcRaceIdArgs == 1..(RcRaces + 1)

NextRace ==
    \/ \E s, e \in RaceDates, st \in Opt(RaceStatus) :
          /\ create_race(s, e, st) /\ Room(races, RcRaces)
          /\ Asked([start_date |-> {s}, end_date |-> {e}, status |-> st])
    \/ \E id \in RcRaceIdArgs, s, e \in Opt(RaceDates), st \in Opt(RaceStatus) :
          /\ update_race(id, s, e, st)
          /\ Asked([race_id |-> id, start_date |-> s, end_date |-> e, status |-> st])
    \/ \E id \in RcRaceIdArgs :
          /\ delete_race(id)
          /\ Asked([race_id |-> id])

SpecRace == Init /\ [][NextRace]_vars

\* Race days created with every field of the body, in a database that holds
\* a race of one day and a race spanning every date.
InitCreateDay ==
    /\ races = <<[start_date |-> 1, end_date |-> 1, status |-> DefaultStatus],
                 [start_date |-> 1, end_date |-> MaxDate, status |-> DefaultStatus]>>
    /\ raceDays = <<>>
    /\ raceResults = EmptyBag
    /\ sessions = NoSessions
    /\ last = NoResponse
    /\ request = NoRequest
    /\ BeyondRacesEmpty

NextCreateDay ==
    \E p, b \in 1..3, n \in DayNumbers, d \in Dates, st \in Opt(RaceStatus) :
        /\ create_race_day(p, b, n, d, st) /\ Room(raceDays, CdDays)
        /\ Asked([race_id |-> p, body_race_id |-> b, day_number |-> n,
                       race_date |-> d, status |-> st])

SpecCreateDay == InitCreateDay /\ [][NextCreateDay]_vars

\* Result mutations on the days of one race, the days created in any one status.
ResultDays == 1..NumResultDays
ResultDayArgs == 1..(NumResultDays + 1)
SubmittedRows == {ResultRow(d, p) : d \in ResultDayArgs, p \in Positions}
RECURSIVE SeqsUpTo(_, _)
SeqsUpTo(S, n) ==
    IF n = 0 THEN {<<>>}
    ELSE SeqsUpTo(S, n - 1) \cup
         {Append(q, x) : q \in {t \in SeqsUpTo(S, n - 1) : Len(t) = n - 1}, x \in S}
SubmittedLists == SeqsUpTo(SubmittedRows, MaxPos)
StoredRowArgs == BagToSet(raceResults) \cup {NoRow}

InitResults ==
    /\ races = <<[start_date |-> 1, end_date |-> 1, status |-> DefaultStatus]>>
    /\ \E st \in RaceStatus : raceDays = [d \in ResultDays |-> NewRaceDay(1, d, 1, {st})]
    /\ raceResults = EmptyBag
    /\ sessions = NoSessions
    /\ last = NoResponse
    /\ request = NoRequest
    /\ BeyondRacesEmpty

NextResults ==
    \/ \E d \in ResultDayArgs, rs \in SubmittedLists :
          add_race_results(d, rs) /\ UNCHANGED <<request, beyondRaces>>
    \/ \E r \in StoredRowArgs, d \in ResultDayArgs, p \in Positions :
          update_race_result(r, d, p) /\ UNCHANGED <<request, beyondRaces>>
    \/ \E r \in StoredRowArgs, p \in Positions :
          participant_update_race_result(r, p) /\ UNCHANGED <<request, beyondRaces>>
    \/ \E r \in StoredRowArgs : delete_race_result(r) /\ UNCHANGED <<request, beyondRaces>>
    \/ \E id \in 1..2, p \in Positions : create_race_result(id, p) /\ UNCHANGED <<request, beyondRaces>>

SpecResults == InitResults /\ [][NextResults]_vars

\* Bulk replacement alone, the submitted list kept in request.
NextReplace ==
    \E d \in ResultDayArgs, rs \in SubmittedLists :
        /\ add_race_results(d, rs)
        /\ Asked([race_day_id |-> d, results |-> rs])

SpecReplace == InitResults /\ [][NextReplace]_vars

\* Bulk replacement of a stored day by rows that name stored days, beside the
\* two requests that set a race's status.
FrameLists == SeqsUpTo({ResultRow(d, p) : d \in ResultDays, p \in Positions}, MaxPos)

NextFrame ==
    \/ \E d \in ResultDays, rs \in FrameLists :
          /\ add_race_results(d, rs)
          /\ Asked([race_day_id |-> d, results |-> rs])
    \/ \E id \in RaceIdArgs, st \in Opt({"completed"}) :
          update_race(id, Unset, Unset, st) /\ Asked([race_id |-> id])
    \/ \E id \in RaceIdArgs : delete_race(id) /\ Asked([race_id |-> id])

SpecFrame == InitResults /\ [][NextFrame]_vars

\* Race days of one race created and updated by requests that overlap.
InitInFlight ==
    /\ races = <<[start_date |-> 1, end_date |-> 1, status |-> DefaultStatus]>>
    /\ raceDays = <<>>
    /\ raceResults = EmptyBag
    /\ sessions = NoSessions
    /\ last = NoResponse
    /\ request = NoRequest
    /\ BeyondRacesEmpty

NextInFlight ==
    \/ \E c \in Clients, p, b \in 1..2, n \in DayNumbers :
          begin_create_race_day(c, p, b, n, 1, Unset) /\ UNCHANGED <<request, beyondRaces>>
    \/ \E c \in Clients :
          commit_create_race_day(c) /\ Room(raceDays, MaxDays) /\ UNCHANGED <<request, beyondRaces>>
    \/ \E c \in Clients, id \in DayIdArgs, n \in Opt(DayNumbers), d \in Opt({1}) :
          begin_update_race_day(c, id, n, d, Unset) /\ UNCHANGED <<request, beyondRaces>>
    \/ \E c \in Clients : commit_update_race_day(c) /\ UNCHANGED <<request, beyondRaces>>

SpecInFlight == InitInFlight /\ [][NextInFlight]_vars

\* Two races, the days dealt between them in turn, no results yet.
InitHierarchy ==
    /\ races = [r \in RaceIds |-> [start_date |-> 1, end_date |-> 1, status |-> DefaultStatus]]
    /\ raceDays = [d \in ResultDays |-> NewRaceDay(((d - 1) % MaxRaces) + 1, d, 1, Unset)]
    /\ raceResults = EmptyBag
    /\ sessions = NoSessions
    /\ last = NoResponse
    /\ request = NoRequest
    /\ BeyondRacesEmpty

\* The race hierarchy with results stored: cancelling, deleting a day and the
\* seed script's clearing of the tables.
NextHierarchy ==
    \/ \E d \in ResultDayArgs, rs \in SubmittedLists :
          add_race_results(d, rs) /\ Asked(NoRequest)
    \/ \E id \in RaceIdArgs :
          delete_race(id) /\ Asked([race_id |-> id])
    \/ \E id \in ResultDayArgs : delete_race_day(id) /\ Asked(NoRequest)
    \/ clear_existing_data /\ Asked(NoRequest)

SpecHierarchy == InitHierarchy /\ [][NextHierarchy]_vars

\* Result requests that may name a race day or a race that is not stored.
NextReferences ==
    \/ \E d \in ResultDayArgs, rs \in SubmittedLists :
          /\ add_race_results(d, rs)
          /\ Asked([race_day_id |-> d, results |-> rs])
    \/ \E r \in StoredRowArgs, d \in ResultDayArgs, p \in Positions :
          /\ update_race_result(r, d, p)
          /\ Asked([result |-> r, results |-> <<ResultRow(d, p)>>])
    \/ \E id \in 1..2, p \in Positions :
          /\ create_race_result(id, p)
          /\ Asked([race_id |-> id, position |-> p])

SpecReferences == InitResults /\ [][NextReferences]_vars

\* Owners and bulls, the deletion of an owner overlapping other requests.
beyondOwners == <<raceTables, request, userBullsSell, marketplaceListings, now,
                  teamResults, response, leaderboardTables>>

NextOwners ==
    \/ create_owner /\ Cardinality(owners) < MaxOwners /\ UNCHANGED beyondOwners
    \/ \E o \in OwnerIdArgs, reg \in Opt(RegNumbers) :
          /\ create_bull(o, reg) /\ Room(bulls, MaxBulls)
          /\ UNCHANGED beyondOwners
    \/ \E b \in BullIdArgs, o \in Opt(OwnerIdArgs), a \in Opt(BOOLEAN) :
          update_bull(b, o, a) /\ UNCHANGED beyondOwners
    \/ \E b \in BullIdArgs : delete_bull(b) /\ UNCHANGED beyondOwners
    \/ \E c \in Clients, o \in OwnerIdArgs :
          begin_delete_owner(c, o) /\ UNCHANGED beyondOwners
    \/ \E c \in Clients : commit_delete_owner(c) /\ UNCHANGED beyondOwners

SpecOwners == Init /\ [][NextOwners]_vars

(* ------------------------------ properties ---------------------------- *)
\* One user's listings with the clock standing still: creations in flight,
\* updates with any status text, deletions and the expiry job.
beyondListings == <<raceTables, request, owners, bulls, marketplaceListings, teamResults,
                    leaderboardTables>>
CapUsers == {1}
CapListings == MAX_BULLS_PER_USER + 1
CapIdArgs == 1..(CapListings + 1)

NextCap ==
    \/ \E c \in Clients, u \in CapUsers, img \in BOOLEAN, p \in Prices :
          begin_create_bull_listing(c, u, img, p) /\ UNCHANGED <<now, response, beyondListings>>
    \/ \E c \in Clients, up \in BOOLEAN :
          /\ commit_create_bull_listing(c, up) /\ Room(userBullsSell, CapListings)
          /\ UNCHANGED <<now, response, beyondListings>>
    \/ \E u \in CapUsers, id \in CapIdArgs, st \in Opt(StatusArgs) :
          update_bull_listing(u, id, Unset, st) /\ UNCHANGED <<now, response, beyondListings>>
    \/ \E u \in CapUsers, id \in CapIdArgs :
          delete_bull_listing(u, id) /\ UNCHANGED <<now, response, beyondListings>>
    \/ expire_old_listings /\ UNCHANGED <<now, response, beyondListings>>

SpecCap == Init /\ [][NextCap]_vars

\* The users' listings as time passes, read through the public list, one
\* creation at a time.
SaleClients == {1}
SaleIdArgs == 1..(SaleListings + 1)
Skips == 0..NumSkip
Limits == 1..MaxLimit

NextSale ==
    \/ \E c \in SaleClients, u \in Users, img \in BOOLEAN, p \in Prices :
          begin_create_bull_listing(c, u, img, p) /\ UNCHANGED <<now, response, beyondListings>>
    \/ \E c \in SaleClients, up \in BOOLEAN :
          /\ commit_create_bull_listing(c, up) /\ Room(userBullsSell, SaleListings)
          /\ UNCHANGED <<now, response, beyondListings>>
    \/ \E u \in Users, id \in SaleIdArgs, st \in Opt(StatusArgs) :
          update_bull_listing(u, id, Unset, st) /\ UNCHANGED <<now, response, beyondListings>>
    \/ \E u \in Users, id \in SaleIdArgs :
          delete_bull_listing(u, id) /\ UNCHANGED <<now, response, beyondListings>>
    \/ expire_old_listings /\ UNCHANGED <<now, response, beyondListings>>
    \/ \E skip \in Skips, limit \in Limits :
          get_user_bulls_for_sale(skip, limit) /\ UNCHANGED <<now, beyondListings>>
    \/ Tick /\ UNCHANGED <<userBullsSell, sessions, last, response, beyondListings>>

SpecSale == Init /\ [][NextSale]_vars

\* Both kinds of sale listing, updated with every status text.
beyondStatus == <<raceTables, request, owners, bulls, teamResults, now, response,
                  leaderboardTables>>
ItemIdArgs == 1..(MaxItems + 1)

NextStatus ==
    \/ \E up \in BOOLEAN :
          /\ create_marketplace_item(up) /\ Room(marketplaceListings, MaxItems)
          /\ UNCHANGED <<userBullsSell, sessions, beyondStatus>>
    \/ \E id \in ItemIdArgs, st \in Opt(StatusArgs) :
          update_marketplace_item(id, st) /\ UNCHANGED <<userBullsSell, sessions, beyondStatus>>
    \/ \E id \in ItemIdArgs :
          delete_marketplace_item(id) /\ UNCHANGED <<userBullsSell, sessions, beyondStatus>>
    \/ \E c \in SaleClients, u \in CapUsers, img \in BOOLEAN, p \in Prices :
          begin_create_bull_listing(c, u, img, p) /\ UNCHANGED <<marketplaceListings, beyondStatus>>
    \/ \E c \in SaleClients, up \in BOOLEAN :
          /\ commit_create_bull_listing(c, up) /\ Room(userBullsSell, SaleListings)
          /\ UNCHANGED <<marketplaceListings, beyondStatus>>
    \/ \E u \in CapUsers, id \in SaleIdArgs, p \in Opt(Prices), st \in Opt(StatusArgs) :
          update_bull_listing(u, id, p, st) /\ UNCHANGED <<marketplaceListings, beyondStatus>>
    \/ \E u \in CapUsers, id \in SaleIdArgs :
          delete_bull_listing(u, id) /\ UNCHANGED <<marketplaceListings, beyondStatus>>

SpecStatus == Init /\ [][NextStatus]_vars

\* The statistics read over every small table of results of two stored bulls.
beyondStatistics == <<raceTables, request, owners, bulls, userBullsSell, marketplaceListings,
                      now, teamResults, sessions, leaderboardTables>>
StoredBulls == 1..MaxBulls
TeamRows == {TeamRow(b1, b2, p, dq, t) :
                b1 \in Opt(StoredBulls), b2 \in Opt(StoredBulls), p \in StatPositions,
                dq \in BOOLEAN, t \in Times}

InitStatistics ==
    /\ races = <<>>
    /\ raceDays = <<>>
    /\ raceResults = EmptyBag
    /\ sessions = NoSessions
    /\ last = NoResponse
    /\ request = NoRequest
    /\ owners = {1}
    /\ bulls \in [StoredBulls -> {[owner_id |-> 1, registration_number |-> Unset,
                                   is_active |-> a] : a \in BOOLEAN}]
    /\ userBullsSell = <<>>
    /\ marketplaceListings = <<>>
    /\ now = 0
    /\ teamResults \in SeqsUpTo(TeamRows, MaxStatRows)
    /\ response = NoBody
    /\ LeaderboardEmpty

NextStatistics ==
    \/ \E id \in BullIdArgs : get_bull_detail_public(id) /\ UNCHANGED beyondStatistics
    \/ \E skip \in Skips, limit \in Limits :
          list_bulls_public(skip, limit) /\ UNCHANGED beyondStatistics

SpecStatistics == InitStatistics /\ [][NextStatistics]_vars

\* The ranking over more bulls than the list holds: one village under one
\* tahsil, taluka and district, one completed race of January of year 1, a
\* winning result of every bull but the last two, bull k in time k, and up to
\* MaxExtraRows further results of any bull.
beyondLeaderboard == <<raceTables, sessions, owners, userBullsSell, marketplaceListings, now,
                       teamResults>>
OneChain == [districts |-> {1}, talukas |-> <<1>>, tahsils |-> <<1>>, villages |-> <<1>>]
RankedBulls == 1..LbBulls
BullResult(bull_id, race_id, position, t, dq) ==
    [bull_id |-> bull_id, race_id |-> race_id, position |-> position,
     time_milliseconds |-> t, is_disqualified |-> dq]
DatedRace(race_date, st, village_id) ==
    [race_date |-> race_date, status |-> st, village_id |-> village_id]
StoredLbBulls(ids) ==
    [b \in ids |-> [owner_id |-> 1, registration_number |-> Unset, is_active |-> TRUE]]
FirstResults == [b \in 1..(LbBulls - 2) |-> BullResult(b, 1, 1, b, FALSE)]
ExtraResults == {BullResult(b, 1, p, t, dq) :
                    b \in RankedBulls, p \in Positions, t \in Times, dq \in BOOLEAN}
Key(year, month, region_type, region_id) ==
    [year |-> year, month |-> month, region_type |-> region_type, region_id |-> region_id]

InitRanking ==
    /\ races = <<>>
    /\ raceDays = <<>>
    /\ raceResults = EmptyBag
    /\ sessions = NoSessions
    /\ last = NoResponse
    /\ request = NoRequest
    /\ owners = {1}
    /\ bulls = StoredLbBulls(RankedBulls)
    /\ userBullsSell = <<>>
    /\ marketplaceListings = <<>>
    /\ now = 0
    /\ teamResults = <<>>
    /\ response = NoBody
    /\ regions = OneChain
    /\ datedRaces = <<DatedRace(<<1, 1, 1>>, "completed", 1)>>
    /\ bullResults \in {FirstResults \o extra : extra \in SeqsUpTo(ExtraResults, MaxExtraRows)}
    /\ leaderboard = <<>>

\* compute_leaderboard_for_month called and its list answered.
Computed(year, month, region_type, region_id) ==
    /\ response' \in compute_leaderboard_for_month(bulls, datedRaces, bullResults, regions,
                                                   year, month, region_type, region_id)
    /\ request' = Key(year, month, region_type, region_id)
    /\ Respond("compute_leaderboard_for_month", "ok")
    /\ UNCHANGED <<bulls, leaderboardTables>>

NextRanking == Computed(1, 1, "district", 1) /\ UNCHANGED beyondLeaderboard

SpecRanking == InitRanking /\ [][NextRanking]_vars

\* Region resolution over every tree of MaxRegions districts, talukas, tahsils
\* and villages: a completed race of December of year 1 in every village, won
\* by the bull of the village's number.
RegionIds == 1..MaxRegions
RegionIdArgs == 1..(MaxRegions + 1)
RegionTrees ==
    {[districts |-> RegionIds, talukas |-> k, tahsils |-> t, villages |-> v] :
        k \in [RegionIds -> RegionIds], t \in [RegionIds -> RegionIds],
        v \in [RegionIds -> RegionIds]}

InitRegion ==
    /\ races = <<>>
    /\ raceDays = <<>>
    /\ raceResults = EmptyBag
    /\ sessions = NoSessions
    /\ last = NoResponse
    /\ request = NoRequest
    /\ owners = {1}
    /\ bulls = StoredLbBulls(RegionIds)
    /\ userBullsSell = <<>>
    /\ marketplaceListings = <<>>
    /\ now = 0
    /\ teamResults = <<>>
    /\ response = NoBody
    /\ regions \in RegionTrees
    /\ datedRaces = [v \in RegionIds |-> DatedRace(<<1, 12, 1>>, "completed", v)]
    /\ bullResults = [v \in RegionIds |-> BullResult(v, v, 1, 1, FALSE)]
    /\ leaderboard = <<>>

NextRegion ==
    \E region_type \in RegionTypes, region_id \in RegionIdArgs :
        Computed(1, 12, region_type, region_id) /\ UNCHANGED beyondLeaderboard

SpecRegion == InitRegion /\ [][NextRegion]_vars

\* The month window, the race status and the disqualification over two
\* villages under two districts: a first race of any date around December of
\* year 1, completed or not, a second one completed on 1 December, and up to
\* MaxLbRows results of two bulls.
TwoChains == [districts |-> {1, 2}, talukas |-> <<1, 2>>, tahsils |-> <<1, 2>>,
              villages |-> <<1, 2>>]
WindowDates == {<<1, 11, 30>>, <<1, 12, 1>>, <<1, 12, 31>>, <<2, 1, 1>>}
WindowStatuses == {"completed", "in_progress"}
WindowResults == {BullResult(b, r, p, t, dq) :
                    b \in StoredBulls, r \in {1, 2}, p \in Positions, t \in Times,
                    dq \in BOOLEAN}

InitWindow ==
    /\ races = <<>>
    /\ raceDays = <<>>
    /\ raceResults = EmptyBag
    /\ sessions = NoSessions
    /\ last = NoResponse
    /\ request = NoRequest
    /\ owners = {1}
    /\ bulls = StoredLbBulls(StoredBulls)
    /\ userBullsSell = <<>>
    /\ marketplaceListings = <<>>
    /\ now = 0
    /\ teamResults = <<>>
    /\ response = NoBody
    /\ regions = TwoChains
    /\ \E d \in WindowDates, st \in WindowStatuses, v1, v2 \in {1, 2} :
          datedRaces = <<DatedRace(d, st, v1), DatedRace(<<1, 12, 1>>, "completed", v2)>>
    /\ bullResults \in SeqsUpTo(WindowResults, MaxLbRows)
    /\ leaderboard = <<>>

NextWindow ==
    \E month \in {11, 12}, region_type \in {"village", "district"} :
        Computed(1, month, region_type, 1) /\ UNCHANGED beyondLeaderboard

SpecWindow == InitWindow /\ [][NextWindow]_vars

\* The cache over one village under one tahsil, taluka and district, one
\* completed race of 1 December of year 1 and up to MaxLbRows results of two
\* bulls, all in time 1: recomputations and lookups of the district's key, the refresh of
\* the month, and the results handlers replacing the result rows in between.
CacheResults == {BullResult(b, 1, p, 1, FALSE) : b \in StoredBulls, p \in Positions}

InitCache ==
    /\ races = <<>>
    /\ raceDays = <<>>
    /\ raceResults = EmptyBag
    /\ sessions = NoSessions
    /\ last = NoResponse
    /\ request = NoRequest
    /\ owners = {1}
    /\ bulls = StoredLbBulls(StoredBulls)
    /\ userBullsSell = <<>>
    /\ marketplaceListings = <<>>
    /\ now = 0
    /\ teamResults = <<>>
    /\ response = NoBody
    /\ regions = OneChain
    /\ datedRaces = <<DatedRace(<<1, 12, 1>>, "completed", 1)>>
    /\ bullResults \in SeqsUpTo(CacheResults, MaxLbRows)
    /\ leaderboard = <<>>

\* The result rows the service reads replaced by a results handler.
results_replaced(rows) ==
    /\ rows # bullResults
    /\ bullResults' = rows
    /\ request' = NoRequest
    /\ response' = NoBody
    /\ Respond("results_replaced", "ok")
    /\ UNCHANGED <<bulls, regions, datedRaces, leaderboard>>

\* The same data with two workers recomputing and looking up the district's
\* key on separate sessions, at most MaxCacheRows rows cached when one starts,
\* and the results handlers replacing the result rows by at most one row.
beyondCache == <<raceTables, owners, userBullsSell, marketplaceListings, now, teamResults>>

NextCacheRace ==
    \/ \E c \in Clients :
          begin_compute_and_save_leaderboard(c, 1, 12, "district", 1) /\ UNCHANGED beyondCache
    \/ \E c \in Clients :
          begin_get_leaderboard_from_db(c, 1, 12, "district", 1) /\ UNCHANGED beyondCache
    \/ \E c \in Clients : commit_save_leaderboard_to_db(c) /\ UNCHANGED beyondCache
    \/ \E rows \in SeqsUpTo(CacheResults, 1) :
          results_replaced(rows) /\ UNCHANGED beyondLeaderboard

SpecCacheRace == InitCache /\ [][NextCacheRace]_vars

NextRoundTrip ==
    \/ round_trip(1, 12, "district", 1) /\ UNCHANGED beyondLeaderboard
    \/ \E rows \in SeqsUpTo(CacheResults, MaxLbRows) :
          results_replaced(rows) /\ UNCHANGED beyondLeaderboard

SpecRoundTrip == InitCache /\ [][NextRoundTrip]_vars

NextCache ==
    \/ compute_and_save_leaderboard(1, 12, "district", 1) /\ UNCHANGED beyondLeaderboard
    \/ get_leaderboard_from_db(1, 12, "district", 1) /\ UNCHANGED beyondLeaderboard
    \/ refresh_all_leaderboards_for_month(1, 12) /\ UNCHANGED beyondLeaderboard
    \/ \E rows \in SeqsUpTo(CacheResults, MaxLbRows) :
          results_replaced(rows) /\ UNCHANGED beyondLeaderboard

SpecCache == InitCache /\ [][NextCache]_vars

DayRows(d) == [r \in ResultsOfDay(raceResults, d) |-> raceResults[r]]

\* C1: every stored race day's race_date lies within [start_date, end_date] of
\* the race its stored race_id refers to.
C1_RaceDateWithinRace ==
    \A d \in DOMAIN raceDays :
        /\ raceDays[d].race_id \in DOMAIN races
        /\ ~OutOfRange(races[raceDays[d].race_id], raceDays[d].race_date)

\* C2: no two race results of one race day share a position.
C2_PositionsUniquePerDay ==
    \A r \in BagToSet(raceResults) : CopiesIn(r, raceResults) = 1

\* A single-row update was refused by the database while its day held two rows.
C2_Witness ==
    /\ last = [op |-> "update_race_result", err |-> "IntegrityError"]
    /\ \E r1, r2 \in BagToSet(raceResults) :
          r1.race_day_id = r2.race_day_id /\ r1.position # r2.position

\* C3: after a successful bulk replacement on day d with list R, the rows of
\* day d are exactly the rows of R and d.total_participants is the length of R.
C3_ReplaceExact ==
    (last = [op |-> "add_race_results", err |-> "ok"]) =>
        /\ DayRows(request.race_day_id) = SeqToBag(request.results)
        /\ raceDays[request.race_day_id].total_participants = Len(request.results)

\* C4: a bulk replacement whose list repeats a position fails with
\* DuplicatePosition on a race day that exists, and leaves every result row and
\* every race day (total_participants and status) as it was.
C4_DuplicateRejected ==
    [][(/\ last'.op = "add_race_results"
        /\ \E i, j \in DOMAIN request'.results :
               i # j /\ request'.results[i].position = request'.results[j].position) =>
          /\ request'.race_day_id \in DOMAIN raceDays => last'.err = "DuplicatePosition"
          /\ last'.err # "ok"
          /\ raceResults' = raceResults
          /\ raceDays' = raceDays]_vars

\* A list with a repeated position was refused while the day held results.
C4_Witness ==
    /\ last = [op |-> "add_race_results", err |-> "DuplicatePosition"]
    /\ Len(request.results) = 2
    /\ request.results[1].position = request.results[2].position
    /\ request.results[1].race_day_id # request.results[2].race_day_id
    /\ DayRows(request.race_day_id) # EmptyBag

\* C5: each race day's total_participants is the number of result rows whose
\* race_day_id is that day.
C5_TotalParticipants ==
    \A d \in DOMAIN raceDays :
        raceDays[d].total_participants = CountOfDay(raceResults, d)

\* C6: no two race days of one race have the same day_number, also when
\* requests overlap between their uniqueness check and their commit.
C6_DayNumberUnique ==
    \A d1, d2 \in DOMAIN raceDays :
        (raceDays[d1].race_id = raceDays[d2].race_id
            /\ raceDays[d1].day_number = raceDays[d2].day_number) => d1 = d2

\* A request has passed its day_number check and, before its commit, another
\* request has committed a day with the same race and number.
C6_Witness ==
    \E c \in Clients :
        /\ sessions[c].pc \in {"create_race_day", "update_race_day"}
        /\ LET row == IF sessions[c].pc = "create_race_day"
                      THEN sessions[c].row ELSE sessions[c].target
               self == IF sessions[c].pc = "create_race_day" THEN {} ELSE {sessions[c].id}
           IN  DayNumberTaken(raceDays, row.race_id, row.day_number, self)

\* What create_race_day answers by the claim: NotFound for an unknown race,
\* else InvalidRange for a date outside the race, else DuplicateDayNumber for a
\* taken day_number; a failure inserts nothing; a success inserts one row with
\* the given status and no participants.
CreateRaceDayAnswers(status) ==
    LET q == request'
        err == last'.err
    IN  /\ q.race_id \notin DOMAIN races => err = "NotFound"
        /\ (q.race_id \in DOMAIN races /\ OutOfRange(races[q.race_id], q.race_date))
               => err = "InvalidRange"
        /\ (/\ q.race_id \in DOMAIN races
            /\ ~OutOfRange(races[q.race_id], q.race_date)
            /\ DayNumberTaken(raceDays, q.race_id, q.day_number, {}))
               => err = "DuplicateDayNumber"
        /\ err # "ok" => raceDays' = raceDays
        /\ err = "ok" =>
               \E id \in DOMAIN raceDays' \ DOMAIN raceDays :
                   /\ raceDays' = raceDays @@ (id :> raceDays'[id])
                   /\ raceDays'[id].status = status
                   /\ raceDays'[id].total_participants = 0

\* C7 as claimed: create_race_day fails with NotFound, InvalidRange or
\* DuplicateDayNumber in the cases named, inserting nothing, and on success the
\* inserted row has status scheduled and total_participants 0.
C7_CreateRaceDay ==
    [][last'.op = "create_race_day" => CreateRaceDayAnswers("scheduled")]_vars

\* C7 amended: the same, except that on success the inserted row has the
\* status the request gives, and scheduled when the request gives none.
C7_CreateRaceDayAmended ==
    [][last'.op = "create_race_day" =>
          CreateRaceDayAnswers(IF request'.status = Unset THEN "scheduled"
                               ELSE Given(request'.status))]_vars

\* A race day was created by a request that named a status of its own.
C7_Witness ==
    /\ last = [op |-> "create_race_day", err |-> "ok"]
    /\ request.status = {"completed"}
    /\ \E d \in DOMAIN raceDays : raceDays[d].status = "completed"

\* C8: every stored race has start_date <= end_date; a create or update whose
\* resulting start_date is after its end_date is refused, and a refused request
\* leaves the stored races as they were.
C8_RaceDatesOrdered ==
    [][/\ \A r \in DOMAIN races' : races'[r].start_date <= races'[r].end_date
       /\ (last'.op = "create_race"
              /\ Given(request'.start_date) > Given(request'.end_date))
             => last'.err # "ok"
       /\ (/\ last'.op = "update_race"
           /\ request'.race_id \in DOMAIN races
           /\ LET q == request'
                  row == [start_date |-> IF q.start_date = Unset
                                         THEN races[q.race_id].start_date
                                         ELSE Given(q.start_date),
                          end_date |-> IF q.end_date = Unset
                                       THEN races[q.race_id].end_date
                                       ELSE Given(q.end_date)]
              IN  row.start_date > row.end_date)
             => last'.err # "ok"
       /\ last'.err # "ok" => races' = races]_vars

\* An update that gave only one of the two dates was refused by the database.
C8_Witness ==
    /\ last = [op |-> "update_race", err |-> "IntegrityError"]
    /\ request.start_date # Unset
    /\ request.end_date = Unset

\* C9: a successful bulk replacement turns the day's status into completed if
\* and only if it was scheduled; any other status is kept.
C9_PromotionOnlyFromScheduled ==
    [][(last'.op = "add_race_results" /\ last'.err = "ok") =>
          LET d == request'.race_day_id
          IN  raceDays'[d].status =
                  IF raceDays[d].status = "scheduled" THEN "completed"
                  ELSE raceDays[d].status]_vars

\* Results were replaced on a day that is in progress, and it still is.
C9_Witness ==
    /\ last = [op |-> "add_race_results", err |-> "ok"]
    /\ request.results # <<>>
    /\ raceDays[request.race_day_id].status = "in_progress"

\* C10: a race or race day whose status is cancelled keeps that status.
C10_CancelledTerminal ==
    [][/\ \A r \in DOMAIN races :
             races[r].status = "cancelled" => races'[r].status = "cancelled"
       /\ \A d \in DOMAIN raceDays \cap DOMAIN raceDays' :
             raceDays[d].status = "cancelled" => raceDays'[d].status = "cancelled"]_vars

\* C11: cancelling a race that exists sets its status to cancelled and leaves
\* every other race, every race day and every result row as it was; cancelling
\* a race id that does not exist fails with NotFound and changes nothing.
C11_CancelKeepsChildren ==
    [][last'.op = "delete_race" =>
          LET id == request'.race_id
          IN  IF id \in DOMAIN races
              THEN /\ last'.err = "ok"
                   /\ DOMAIN races' = DOMAIN races
                   /\ races'[id].status = "cancelled"
                   /\ \A r \in DOMAIN races \ {id} : races'[r] = races[r]
                   /\ raceDays' = raceDays
                   /\ raceResults' = raceResults
              ELSE /\ last'.err = "NotFound"
                   /\ races' = races
                   /\ raceDays' = raceDays
                   /\ raceResults' = raceResults]_vars

\* A race was cancelled while one of its days held results.
C11_Witness ==
    /\ last = [op |-> "delete_race", err |-> "ok"]
    /\ \E d \in DOMAIN raceDays :
          /\ raceDays[d].race_id = request.race_id
          /\ races[request.race_id].status = "cancelled"
          /\ ResultsOfDay(raceResults, d) # {}

\* C12: every result row's race_day_id names a stored race day and every race
\* day's race_id names a stored race, whatever is deleted.
C12_NoDanglingRows ==
    /\ \A r \in BagToSet(raceResults) : r.race_day_id \in DOMAIN raceDays
    /\ \A d \in DOMAIN raceDays : raceDays[d].race_id \in DOMAIN races

\* A race day has been deleted while results of another day stay stored.
C12_Witness ==
    /\ last = [op |-> "delete_race_day", err |-> "ok"]
    /\ Cardinality(DOMAIN raceDays) < NumResultDays
    /\ raceResults # EmptyBag

\* C13: a bulk replacement or a single-row update that names a race day that
\* is not stored (in its path or in a submitted result), and a single-row
\* create that names a race that is not stored, fail with NotFound and leave
\* the result rows as they were.
C13_UnknownReferenceNotFound ==
    [][LET q == request'
           unknown ==
               \/ /\ last'.op = "add_race_results"
                  /\ \/ q.race_day_id \notin DOMAIN raceDays
                     \/ \E i \in DOMAIN q.results :
                           q.results[i].race_day_id \notin DOMAIN raceDays
               \/ /\ last'.op = "update_race_result"
                  /\ \E i \in DOMAIN q.results :
                        q.results[i].race_day_id \notin DOMAIN raceDays
               \/ /\ last'.op = "create_race_result"
                  /\ q.race_id \notin DOMAIN races
       IN  unknown => (last'.err = "NotFound" /\ raceResults' = raceResults)]_vars

\* C14: every bull's owner_id names a stored owner, and no step removes an
\* owner that a stored bull references.
C14_BullOwnerExists ==
    [][/\ \A b \in DOMAIN bulls' : bulls'[b].owner_id \in owners'
       /\ \A o \in owners :
             (\E b \in DOMAIN bulls : bulls[b].owner_id = o) => o \in owners']_vars

\* The database refused the deletion of an owner whose first bull was committed
\* after the handler had counted none.
C14_Witness ==
    /\ last = [op |-> "delete_owner", err |-> "IntegrityError"]
    /\ \E b \in DOMAIN bulls : bulls[b].owner_id \in owners


\* C15: no user ever has more than five listings with status available.
C15_AvailableAtMostFive ==
    \A u \in Users :
        Cardinality({i \in DOMAIN userBullsSell :
                        /\ userBullsSell[i].user_id = u
                        /\ userBullsSell[i].status = "available"}) <= MAX_BULLS_PER_USER


\* C16: a listing's expires_at is its creation time plus 30 days and no step
\* changes it afterwards; the public list returns no listing created 30 days
\* or more before the list was answered.
C16_ExpiresAtFixed ==
    [][/\ \A i \in DOMAIN userBullsSell \cap DOMAIN userBullsSell' :
             userBullsSell'[i].expires_at = userBullsSell[i].expires_at
       /\ \A i \in DOMAIN userBullsSell' \ DOMAIN userBullsSell :
             /\ userBullsSell'[i].created_at = now
             /\ userBullsSell'[i].expires_at = now + ListingDays
       /\ last'.op = "get_user_bulls_for_sale" =>
             \A k \in DOMAIN response'.rows :
                response'.at - response'.rows[k].created_at < ListingDays]_vars

\* The list answered with a listing while an older one, 30 days old, still
\* available and of another user, is withheld.
C16_Witness ==
    /\ last.op = "get_user_bulls_for_sale"
    /\ response.at = now
    /\ response.rows # <<>>
    /\ \E i, j \in DOMAIN userBullsSell :
          /\ userBullsSell[i].status = "available"
          /\ userBullsSell[i].created_at + ListingDays <= now
          /\ userBullsSell[j].user_id # userBullsSell[i].user_id
          /\ \E k \in DOMAIN response.rows : response.rows[k].id = j

\* C17: every marketplace listing and every user bull listing has a status
\* among available, sold, expired and hidden.
C17_StatusInDomain ==
    /\ \A i \in DOMAIN marketplaceListings :
          marketplaceListings[i].status \in {"available", "sold", "expired", "hidden"}
    /\ \A i \in DOMAIN userBullsSell :
          userBullsSell[i].status \in {"available", "sold", "expired", "hidden"}

\* The table with the two slots of row i exchanged.
SwapSlots(trs, i) ==
    [trs EXCEPT ![i] = [@ EXCEPT !.bull1_id = trs[i].bull2_id, !.bull2_id = trs[i].bull1_id]]

\* C18: the statistics answered for a bull count the rows that are not
\* disqualified and hold the bull in slot bull1 or in slot bull2, whatever the
\* other slot holds, and exchanging the slots of any row changes no statistic
\* of any bull.
C18_EitherSlotCounted ==
    /\ (last.op = "get_bull_detail_public" /\ last.err = "ok") =>
          LET mine == {i \in DOMAIN teamResults :
                          /\ response.id \in teamResults[i].bull1_id \cup teamResults[i].bull2_id
                          /\ teamResults[i].is_disqualified = FALSE}
              placed(p) == Cardinality({i \in mine : teamResults[i].position = p})
          IN  /\ response.statistics.total_races = Cardinality(mine)
              /\ response.statistics.first_place_wins = placed(1)
              /\ response.statistics.second_place_wins = placed(2)
              /\ response.statistics.third_place_wins = placed(3)
    /\ \A i \in DOMAIN teamResults, b \in DOMAIN bulls :
          Statistics(SwapSlots(teamResults, i), b) = Statistics(teamResults, b)

\* A bull answered with two wins in two races: bull1 of one first-place row and
\* bull2, beside another bull, of another.
C18_Witness ==
    /\ last.op = "get_bull_detail_public" /\ last.err = "ok"
    /\ response.statistics.first_place_wins = 2
    /\ response.statistics.total_races = 2
    /\ \E i, j \in DOMAIN teamResults :
          /\ teamResults[i].bull1_id = {response.id}
          /\ teamResults[j].bull2_id = {response.id}
          /\ teamResults[j].bull1_id \notin {Unset, {response.id}}

\* C19: the statistics the list answers for each of its bulls are those the
\* single-bull computation gives for that bull.
C19_BatchEqualsSingle ==
    last.op = "list_bulls_public" =>
        \A k \in DOMAIN response :
            LET single == Statistics(teamResults, response[k].id)
            IN  /\ response[k].statistics.total_races = single.total_races
                /\ response[k].statistics.first_place_wins = single.first_place_wins
                /\ response[k].statistics.best_time_milliseconds = single.best_time_milliseconds

\* C20: a bull with no row that counts, none at all or disqualified ones only,
\* is answered without error, every count 0 and both times null.
C20_NoResultsZeroAndNull ==
    (/\ last.op = "get_bull_detail_public"
     /\ response # NoBody
     /\ \A i \in DOMAIN teamResults :
           response.id \in teamResults[i].bull1_id \cup teamResults[i].bull2_id
              => teamResults[i].is_disqualified)
    => /\ last.err = "ok"
       /\ response.statistics = [total_races |-> 0, first_place_wins |-> 0,
                                 second_place_wins |-> 0, third_place_wins |-> 0,
                                 best_time_milliseconds |-> Unset,
                                 avg_time_milliseconds |-> Unset]

\* A bull answered whose only rows are disqualified ones, one in each slot.
C20_Witness ==
    /\ last.op = "get_bull_detail_public" /\ last.err = "ok"
    /\ response.statistics.total_races = 0
    /\ \E i, j \in DOMAIN teamResults :
          /\ teamResults[i].bull1_id = {response.id} /\ teamResults[i].is_disqualified
          /\ teamResults[j].bull2_id = {response.id} /\ teamResults[j].is_disqualified

\* The vocabulary of the leaderboard claims, for the key of the request
\* answered last: the villages that roll up into the region, read from each
\* village upwards; the results that contribute; a bull's wins and best time.
RollsUp(v) ==
    LET rg == regions
        tahsil == rg.villages[v]
        taluka == rg.tahsils[tahsil]
    IN  \/ request.region_type = "village" /\ v = request.region_id
        \/ /\ v \in DOMAIN rg.villages
           /\ \/ request.region_type = "tahsil" /\ tahsil = request.region_id
              \/ /\ tahsil \in DOMAIN rg.tahsils
                 /\ \/ request.region_type = "taluka" /\ taluka = request.region_id
                    \/ /\ taluka \in DOMAIN rg.talukas
                       /\ request.region_type = "district"
                       /\ rg.talukas[taluka] = request.region_id

FirstOfNextMonth ==
    IF request.month = 12 THEN <<request.year + 1, 1, 1>>
    ELSE <<request.year, request.month + 1, 1>>

OnOrAfter(a, b) ==
    a[1] > b[1] \/ (a[1] = b[1] /\ (a[2] > b[2] \/ (a[2] = b[2] /\ a[3] >= b[3])))

Contributes(i) ==
    LET race == datedRaces[bullResults[i].race_id]
    IN  /\ bullResults[i].is_disqualified = FALSE
        /\ race.status = "completed"
        /\ OnOrAfter(race.race_date, <<request.year, request.month, 1>>)
        /\ ~OnOrAfter(race.race_date, FirstOfNextMonth)
        /\ RollsUp(race.village_id)

Contributing == {i \in DOMAIN bullResults : Contributes(i)}
Eligible == {bullResults[i].bull_id : i \in Contributing}
WinsOf(b) ==
    Cardinality({i \in Contributing : bullResults[i].bull_id = b /\ bullResults[i].position = 1})
BestTimeOf(b) ==
    CHOOSE t \in {bullResults[i].time_milliseconds :
                    i \in {j \in Contributing : bullResults[j].bull_id = b}} :
        \A i \in Contributing : bullResults[i].bull_id = b => t <= bullResults[i].time_milliseconds

\* C21: the computed list is the top ten of the eligible bulls in the order
\* 'wins descending, then best time ascending': distinct bulls, ranks 1..k in
\* list order, consecutive entries in that order, and no eligible bull left
\* out goes before a listed one.
C21_TopOfOrder ==
    last.op = "compute_leaderboard_for_month" =>
        LET listed == {response[k].bull_id : k \in DOMAIN response}
        IN  /\ Len(response) <= 10
            /\ Len(response) = 10 \/ listed = Eligible
            /\ listed \subseteq Eligible
            /\ \A k \in DOMAIN response : response[k].rank = k
            /\ \A j, k \in DOMAIN response :
                  response[j].bull_id = response[k].bull_id => j = k
            /\ \A j, k \in DOMAIN response : k = j + 1 =>
                  \/ response[j].total_wins > response[k].total_wins
                  \/ /\ response[j].total_wins = response[k].total_wins
                     /\ response[j].best_time_milliseconds <= response[k].best_time_milliseconds
            /\ \A c \in Eligible \ listed, k \in DOMAIN response :
                  ~ \/ WinsOf(c) > response[k].total_wins
                    \/ /\ WinsOf(c) = response[k].total_wins
                       /\ BestTimeOf(c) < response[k].best_time_milliseconds

\* Ten listed of eleven eligible, with two neighbours equal in wins and
\* ordered by time and two neighbours where more wins go before a better time.
C21_Witness ==
    /\ last.op = "compute_leaderboard_for_month"
    /\ Len(response) = 10
    /\ Cardinality(Eligible) = 11
    /\ \E k \in 1..9 :
          /\ response[k].total_wins = response[k + 1].total_wins
          /\ response[k].best_time_milliseconds < response[k + 1].best_time_milliseconds
    /\ \E k \in 1..9 :
          /\ response[k].total_wins > response[k + 1].total_wins
          /\ response[k].best_time_milliseconds > response[k + 1].best_time_milliseconds

\* C22: the list holds exactly the bulls with a contributing result (not
\* disqualified, race completed, race date in the month's half-open window,
\* village in the region), each with its number of contributing first places
\* and the least time of its contributing results.
C22_ContributingResults ==
    last.op = "compute_leaderboard_for_month" =>
        /\ {response[k].bull_id : k \in DOMAIN response} = Eligible
        /\ \A k \in DOMAIN response :
              /\ response[k].total_wins = WinsOf(response[k].bull_id)
              /\ response[k].best_time_milliseconds = BestTimeOf(response[k].bull_id)

\* December of year 1 answered with a bull listed while a result that is not
\* disqualified, of a completed race of the region on 1 January of year 2, is
\* left out.
C22_Witness ==
    /\ last.op = "compute_leaderboard_for_month"
    /\ request.month = 12
    /\ response # <<>>
    /\ \E i \in DOMAIN bullResults \ Contributing :
          /\ datedRaces[bullResults[i].race_id].race_date = <<2, 1, 1>>
          /\ datedRaces[bullResults[i].race_id].status = "completed"
          /\ RollsUp(datedRaces[bullResults[i].race_id].village_id)
          /\ ~bullResults[i].is_disqualified


\* C23: the region filter admits, of the stored villages, exactly those that
\* roll up into the region (the village itself, the villages of a tahsil, of
\* the tahsils of a taluka, of the tahsils of the talukas of a district); the
\* bulls listed are those that raced in these villages, and a region id that
\* matches no region gives an empty list without an error.
C23_RegionResolution ==
    last.op = "compute_leaderboard_for_month" =>
        /\ VillageIds(regions, request.region_type, request.region_id)
              \cap DOMAIN regions.villages
           = {v \in DOMAIN regions.villages : RollsUp(v)}
        /\ {response[k].bull_id : k \in DOMAIN response}
           = {bullResults[i].bull_id : i \in {j \in DOMAIN bullResults :
                                                 RollsUp(datedRaces[bullResults[j].race_id].village_id)}}
        /\ last.err = "ok"
        /\ request.region_id \notin RegionIds => response = <<>>

\* A district answered with one of the two racing bulls: a village under it
\* and a village under another district.
C23_Witness ==
    /\ last.op = "compute_leaderboard_for_month"
    /\ request.region_type = "district"
    /\ Len(response) = 1
    /\ \E v, w \in DOMAIN regions.villages :
          /\ regions.villages[v] # regions.villages[w]
          /\ regions.tahsils[regions.villages[v]] # regions.tahsils[regions.villages[w]]
          /\ response[1].bull_id = v

\* C24: total_races of a listed bull is the number of its results that are not
\* disqualified, of completed races of the month, in the villages of the region.
C24_TotalRacesInRegion ==
    last.op = "compute_leaderboard_for_month" =>
        \A k \in DOMAIN response :
            response[k].total_races =
                Cardinality({i \in Contributing : bullResults[i].bull_id = response[k].bull_id})

\* The cached rows of a key, and the rows a computed list stands for.
RowsIn(cache, key) == {cache[i] : i \in KeyRows(cache, key)}
RowsOfKey(key) == RowsIn(leaderboard, key)
RowsOfList(key, top_bulls) == {LeaderboardEntry(key, top_bulls[k]) : k \in DOMAIN top_bulls}

\* C25: after a recomputation for a key the cached rows of the key are exactly
\* the entries just computed, one row per entry, none when the computation is
\* empty; after the refresh of a month this holds of every region's key.
C25_CacheIsNewEntries ==
    /\ last.op = "compute_and_save_leaderboard" =>
          /\ RowsOfKey(request) = RowsOfList(request, response)
          /\ Cardinality(KeyRows(leaderboard, request)) = Len(response)
    /\ last.op = "refresh_all_leaderboards_for_month" =>
          \A k \in DOMAIN RefreshKeys(regions, request.year, request.month) :
              LET key == RefreshKeys(regions, request.year, request.month)[k]
              IN  \E top_bulls \in compute_leaderboard_for_month(
                                       bulls, datedRaces, bullResults, regions,
                                       key.year, key.month, key.region_type, key.region_id) :
                      /\ RowsOfKey(key) = RowsOfList(key, top_bulls)
                      /\ Cardinality(KeyRows(leaderboard, key)) = Len(top_bulls)

\* C26: a lookup of a key with a cached row answers the cached rows of the key
\* in rank order and leaves the cache as it was, whatever the results are now;
\* a lookup of a key with no cached row answers a list computed from the current
\* results and leaves exactly its entries cached under the key, the rows of
\* other keys untouched.
C26_LookupCachedOrComputed ==
    [][last'.op = "get_leaderboard_from_db" =>
          LET key == request'
              S == KeyRows(leaderboard, key)
          IN  IF S # {}
              THEN /\ leaderboard' = leaderboard
                   /\ Len(response') = Cardinality(S)
                   /\ \A i \in S : \E k \in DOMAIN response' :
                         /\ response'[k].rank = leaderboard[i].rank
                         /\ response'[k].bull_id = str(leaderboard[i].bull_id)
                         /\ response'[k].total_wins = leaderboard[i].first_place_wins
                         /\ response'[k].total_races = leaderboard[i].total_races
                         /\ response'[k].best_time_milliseconds =
                                leaderboard[i].best_time_milliseconds
                   /\ \A k \in 1..(Len(response') - 1) :
                         response'[k].rank <= response'[k + 1].rank
              ELSE /\ \E top_bulls \in compute_leaderboard_for_month(
                                            bulls, datedRaces, bullResults, regions,
                                            key.year, key.month, key.region_type,
                                            key.region_id) :
                         /\ Len(response') = Len(top_bulls)
                         /\ \A k \in DOMAIN top_bulls :
                               response'[k] = [top_bulls[k] EXCEPT !.bull_id = str(@)]
                         /\ RowsIn(leaderboard', key) = RowsOfList(key, top_bulls)
                         /\ Cardinality(KeyRows(leaderboard', key)) = Len(top_bulls)
                   /\ {leaderboard'[i] : i \in DOMAIN leaderboard' \ KeyRows(leaderboard', key)}
                         = {leaderboard[i] : i \in DOMAIN leaderboard}
                   /\ Cardinality(DOMAIN leaderboard' \ KeyRows(leaderboard', key))
                         = Cardinality(DOMAIN leaderboard)]_vars

\* A lookup answered cached rows that no computation over the current results gives.
C26_Witness ==
    /\ last.op = "get_leaderboard_from_db"
    /\ response # <<>>
    /\ \A top_bulls \in compute_leaderboard_for_month(
                             bulls, datedRaces, bullResults, regions, request.year,
                             request.month, request.region_type, request.region_id) :
          Len(top_bulls) # Len(response)
          \/ \E k \in DOMAIN top_bulls : response[k] # [top_bulls[k] EXCEPT !.bull_id = str(@)]

\* C27: computing and saving the leaderboard of a key, reading it back through
\* the lookup and recomputing it, with no change of the results in between,
\* give the same ranked list three times.
C27_RoundTrip ==
    last.op = "round_trip" =>
        /\ Len(response[2]) = Len(response[1])
        /\ \A k \in DOMAIN response[1] :
              response[2][k] = [response[1][k] EXCEPT !.bull_id = str(@)]
        /\ response[3] = response[1]

\* C28: the cache never holds two rows of one key for the same bull, nor two
\* rows of one key with the same rank.
C28_OneRowPerBullAndRank ==
    \A i, j \in DOMAIN leaderboard :
        (/\ i # j
         /\ leaderboard[i].year = leaderboard[j].year
         /\ leaderboard[i].month = leaderboard[j].month
         /\ leaderboard[i].region_type = leaderboard[j].region_type
         /\ leaderboard[i].region_id = leaderboard[j].region_id)
        => /\ leaderboard[i].bull_id # leaderboard[j].bull_id
           /\ leaderboard[i].rank # leaderboard[j].rank

C30_SubmissionFrame ==
    [][/\ last'.op = "add_race_results" =>
             /\ races' = races
             /\ DOMAIN raceDays' = DOMAIN raceDays
             /\ \A d \in DOMAIN raceDays :
                   /\ raceDays'[d].race_id = raceDays[d].race_id
                   /\ raceDays'[d].day_number = raceDays[d].day_number
                   /\ raceDays'[d].race_date = raceDays[d].race_date
                   /\ d # request'.race_day_id => raceDays'[d] = raceDays[d]
             /\ \A r \in BagToSet(raceResults) \cup BagToSet(raceResults') :
                   r.race_day_id # request'.race_day_id =>
                       CopiesIn(r, raceResults') = CopiesIn(r, raceResults)
       /\ \A id \in DOMAIN races :
             (id \in DOMAIN races' /\ races'[id].status # races[id].status) =>
                 last'.op \in {"update_race", "delete_race"}]_vars

====
